---- MODULE Spec2Model ----
(***************************************************************************)
(* Roll-schedule construction and constant-maturity splicing of the        *)
(* finm37000 package (src/src/finm37000/__init__.py).                      *)
(*                                                                         *)
(* Time is counted in ticks; a calendar day has TicksPerDay ticks and the  *)
(* date of a timestamp is its day ordinal (timestamp \div TicksPerDay).    *)
(* A date and its ISO string "YYYY-MM-DD" are represented by the same day  *)
(* ordinal: isoformat() is injective and order preserving on dates.        *)
(* Strings the code parses (the product symbol, instrument ids) are        *)
(* sequences of one-character strings.                                     *)
(***************************************************************************)
EXTENDS Integers, Sequences, FiniteSets, TLC

VARIABLES
    pc,             \* position of the call in progress
    product,        \* get_roll_spec: product / constant_maturity_splice: symbol
    instrument_df,  \* get_roll_spec: the instrument catalog (sequence of rows)
    start,          \* get_roll_spec: start date
    end,            \* get_roll_spec: end date
    df,             \* get_roll_spec: filtered, date-annotated, sorted catalog
    maturity_days,  \* parsed day count T
    current,        \* get_roll_spec: loop date
    segments,       \* get_roll_spec: list of (seg_start, d1, pair)
    cur_pair,       \* get_roll_spec: <<>> is None, else <<p, n>>
    seg_start,      \* get_roll_spec: first day of the open run
    result,         \* returned value
    roll_spec,      \* constant_maturity_splice: the schedule passed in
    all_data,       \* constant_maturity_splice: the price rows passed in
    cm_i,           \* constant_maturity_splice: index of the loop over roll_spec
    cm_segments,    \* constant_maturity_splice: the segment frames built so far
    mode,           \* continuous: "additive" or "multiplicative" splice
    raw_df,         \* continuous: the raw rows passed in as df
    adjust_by,      \* continuous: the column the adjustment is computed from
    adjustment_cols, \* continuous: the columns to adjust, NoCols for None
    spliced,        \* continuous: the unadjusted splice
    adjustments     \* continuous: the per-transition adjustments, by date

cmVars == <<roll_spec, all_data, cm_i, cm_segments>>
rollVars == <<instrument_df, start, end, df, current, segments, cur_pair,
              seg_start>>
contVars == <<mode, raw_df, adjust_by, adjustment_cols, spliced, adjustments>>

vars == <<pc, product, instrument_df, start, end, df, maturity_days,
          current, segments, cur_pair, seg_start, result, roll_spec,
          all_data, cm_i, cm_segments, mode, raw_df, adjust_by,
          adjustment_cols, spliced, adjustments>>

----------------------------------------------------------------------------
(* Bounds of the model *)

TicksPerDay == 2    \* resolution of a timestamp within a day
MaxDay == 4         \* latest end date of a requested range
MaxExpDay == 3      \* latest expiration date in a catalog
MaxGridDay == 2     \* latest d1 of a schedule passed to the splice

StartDates == {0, 1}        \* start dates of a requested range
InstrumentIds == {1, 2, 3}  \* instrument ids of a catalog, in row order

NoneV == 0          \* Python None inside a pair; instrument ids are >= 1
NoDate == 0 - 1     \* seg_start before the first run
NoCols == <<"None">>    \* Python None as adjustment_cols

----------------------------------------------------------------------------
(* Strings *)

Digits == <<"0", "1", "2", "3", "4", "5", "6", "7", "8", "9">>

IsDigit(c) == \E i \in 1..10 : Digits[i] = c

DigitVal(c) == (CHOOSE i \in 1..10 : Digits[i] = c) - 1

\* str.split("."): the components between the dots
RECURSIVE SplitDot(_)
SplitDot(s) ==
    IF \A i \in 1..Len(s) : s[i] # "."
    THEN <<s>>
    ELSE LET i == CHOOSE k \in 1..Len(s) :
                     s[k] = "." /\ \A j \in 1..(k - 1) : s[j] # "."
         IN <<SubSeq(s, 1, i - 1)>> \o SplitDot(SubSeq(s, i + 1, Len(s)))

\* value of a non-empty digit string
RECURSIVE DigitsValue(_)
DigitsValue(s) ==
    IF Len(s) = 0 THEN 0
    ELSE 10 * DigitsValue(SubSeq(s, 1, Len(s) - 1)) + DigitVal(s[Len(s)])

AllDigits(s) == Len(s) > 0 /\ \A i \in 1..Len(s) : IsDigit(s[i])

\* int(s) succeeds: an optional sign followed by decimal digits
IsIntLiteral(s) ==
    \/ AllDigits(s)
    \/ Len(s) > 1 /\ s[1] \in {"+", "-"} /\ AllDigits(Tail(s))

\* int(s) for a string on which it succeeds
IntOf(s) ==
    IF s[1] = "-" THEN 0 - DigitsValue(Tail(s))
    ELSE IF s[1] = "+" THEN DigitsValue(Tail(s))
    ELSE DigitsValue(s)

\* str(n) for an integer n >= 0
RECURSIVE StrOf(_)
StrOf(n) ==
    IF n < 10 THEN <<Digits[n + 1]>>
    ELSE StrOf(n \div 10) \o <<Digits[(n % 10) + 1]>>

\* str.startswith
StartsWith(s, prefix) ==
    Len(prefix) <= Len(s) /\ SubSeq(s, 1, Len(prefix)) = prefix

Last(s) == s[Len(s)]

----------------------------------------------------------------------------
(* get_roll_spec *)

\* the first component taken for the maturity
MaturityTextFirst(p) == SplitDot(p)[1]

\* product.split(".")[-1] and product.split(".")[0]
MaturityText(p) == Last(SplitDot(p))
Root(p) == SplitDot(p)[1]

\* pd.to_datetime(x).dt.date
DateOf(ts) == ts \div TicksPerDay

\* a filter on the root alone, spreads kept
EligibleAnyClass(row, root) == StartsWith(row.raw_symbol, root)

\* step 3: outright futures of this root
Eligible(row, root) ==
    row.instrument_class = "F" /\ StartsWith(row.raw_symbol, root)

FilterCatalog(cat, root) ==
    LET Keep(row) == Eligible(row, root) IN SelectSeq(cat, Keep)

\* step 4: the date columns
WithDates(rows) ==
    [i \in 1..Len(rows) |->
        [instrument_id |-> rows[i].instrument_id,
         exp_date |-> DateOf(rows[i].expiration),
         live_date |-> DateOf(rows[i].ts_recv)]]

\* sort_values("exp_date"): rows of equal date keep their order (the
\* default quicksort is an insertion sort on frames of at most 16 rows)
RECURSIVE InsertByExp(_, _)
InsertByExp(sorted, row) ==
    IF Len(sorted) = 0 THEN <<row>>
    ELSE IF Last(sorted).exp_date <= row.exp_date THEN Append(sorted, row)
    ELSE Append(InsertByExp(SubSeq(sorted, 1, Len(sorted) - 1), row),
                Last(sorted))

\* the rows left in catalog order
SortByExpNone(rows) == rows

RECURSIVE SortByExp(_)
SortByExp(rows) ==
    IF Len(rows) = 0 THEN <<>>
    ELSE InsertByExp(SortByExp(SubSeq(rows, 1, Len(rows) - 1)), Last(rows))

\* every row counted as live, whatever its listing date
AvailUnlisted(d, day) == d

\* the rows live on the first day of the requested range, whatever the day
AvailAtStart(d, day) ==
    LET Live(row) == row.live_date <= start IN SelectSeq(d, Live)

\* the body of the while loop up to the pair (lines 99-115)
Avail(d, day) ==
    LET Live(row) == row.live_date <= day IN SelectSeq(d, Live)

\* a next side of every available row, whatever its expiration
NextRowsAll(avail, target) == avail

\* a next side that leaves out the instrument expiring on the target date
NextRowsStrict(avail, target) ==
    LET After(row) == row.exp_date > target IN SelectSeq(avail, After)

\* a previous side that takes in the instrument expiring on the target date
PrevRowsInclusive(avail, target) ==
    LET UpTo(row) == row.exp_date <= target IN SelectSeq(avail, UpTo)

PrevRows(avail, target) ==
    LET Before(row) == row.exp_date < target IN SelectSeq(avail, Before)

NextRows(avail, target) ==
    LET OnOrAfter(row) == row.exp_date >= target IN SelectSeq(avail, OnOrAfter)

PairOn(d, day, T) ==
    LET avail == SortByExp(Avail(d, day))
        target == day + T
        prev_rows == PrevRows(avail, target)
        next_rows == NextRows(avail, target)
    IN IF Len(avail) > 0 /\ Len(prev_rows) > 0 /\ Len(next_rows) > 0
       THEN <<Last(prev_rows).instrument_id, next_rows[1].instrument_id>>
       ELSE <<NoneV, NoneV>>

\* a loop that also visits the end date
LoopGuardInclusive(day, last) == day <= last

\* line 97: the loop condition
LoopGuard(day, last) == day < last

\* a comparison of the previous instrument alone
PairChangedPrevOnly(pair, cur) == cur = <<>> \/ pair[1] # cur[1]

\* line 118: a run ends where the pair changes
PairChanged(pair, cur) == pair # cur

\* a run closed one day early
AppendRunShort(segs, s, d1, pair) ==
    Append(segs, <<s, IF d1 - 1 > s THEN d1 - 1 ELSE d1, pair>>)

\* line 120: the run [s, d1) of pair is closed
AppendRun(segs, s, d1, pair) == Append(segs, <<s, d1, pair>>)

\* step 6: the output records, ranges without a pair skipped
FormatSegment(seg) ==
    [d0 |-> seg[1], d1 |-> seg[2], p |-> StrOf(seg[3][1]), n |-> StrOf(seg[3][2])]

\* a formatter that keeps the runs without a pair
HasPairAlways(seg) == TRUE

\* lines 133-135
HasPair(seg) == seg[3][1] # NoneV /\ seg[3][2] # NoneV

FormatSegments(segs) ==
    LET kept == SelectSeq(segs, HasPair)
    IN [i \in 1..Len(kept) |-> FormatSegment(kept[i])]

----------------------------------------------------------------------------
(* Inputs *)

RootA == <<"A">>
Products ==
    { RootA \o <<".", "c", ".", "1">>,
      RootA \o <<".", "c", ".", "2">>,
      RootA \o <<".", "c", ".", "x">> }

EligibleKind == [instrument_class |-> "F", raw_symbol |-> <<"A", "H">>]
NoiseKinds ==
    { [instrument_class |-> "S", raw_symbol |-> <<"A", "H">>],
      [instrument_class |-> "F", raw_symbol |-> <<"B", "H">>],
      [instrument_class |-> "S", raw_symbol |-> <<"B", "H">>] }
Kinds == {EligibleKind} \cup NoiseKinds

\* expirations at midnight on even days, later in the day on odd days
ExpStamps == { d * TicksPerDay + (d % 2) : d \in 0..MaxExpDay }
\* listed before the range, or in the course of day 2
LiveStamps == { 0, 2 * TicksPerDay + 1 }

Catalogs ==
    { cat \in [InstrumentIds -> [kind : Kinds, expiration : ExpStamps,
                                  ts_recv : LiveStamps]] :
        Cardinality({i \in InstrumentIds : cat[i].kind \in NoiseKinds}) <= 1 }

CatalogRows(cat) ==
    [i \in 1..Cardinality(InstrumentIds) |->
        [instrument_id |-> i,
         raw_symbol |-> cat[i].kind.raw_symbol,
         instrument_class |-> cat[i].kind.instrument_class,
         expiration |-> cat[i].expiration,
         ts_recv |-> cat[i].ts_recv]]

----------------------------------------------------------------------------
(* The call get_roll_spec(product, instrument_df, start, end) *)

Init ==
    /\ pc = "roll_start"
    /\ product \in Products
    /\ \E cat \in Catalogs : instrument_df = CatalogRows(cat)
    /\ start \in StartDates
    /\ end \in 0..MaxDay
    /\ df = <<>>
    /\ maturity_days = 0
    /\ current = 0
    /\ segments = <<>>
    /\ cur_pair = <<>>
    /\ seg_start = NoDate
    /\ result = <<>>
    /\ roll_spec = <<>>
    /\ all_data = <<>>
    /\ cm_i = 0
    /\ cm_segments = <<>>
    /\ mode = "none"
    /\ raw_df = <<>>
    /\ adjust_by = "price"
    /\ adjustment_cols = NoCols
    /\ spliced = <<>>
    /\ adjustments = <<>>

\* lines 61-64: int() raises ValueError
RollParseError ==
    /\ pc = "roll_start"
    /\ ~IsIntLiteral(MaturityText(product))
    /\ pc' = "roll_error"
    /\ UNCHANGED <<product, instrument_df, start, end, df, maturity_days,
                   current, segments, cur_pair, seg_start, result>>
    /\ UNCHANGED cmVars
    /\ UNCHANGED contVars

\* lines 61-93: parse, filter, sort, initialise the loop
RollPrepare ==
    /\ pc = "roll_start"
    /\ IsIntLiteral(MaturityText(product))
    /\ LET filtered == FilterCatalog(instrument_df, Root(product))
       IN /\ maturity_days' = IntOf(MaturityText(product))
          /\ IF Len(filtered) = 0
             THEN /\ pc' = "roll_done"
                  /\ result' = <<>>
                  /\ UNCHANGED <<df, current>>
             ELSE /\ pc' = "roll_loop"
                  /\ df' = SortByExp(WithDates(filtered))
                  /\ current' = start
                  /\ UNCHANGED result
    /\ UNCHANGED <<product, instrument_df, start, end, segments, cur_pair,
                   seg_start>>
    /\ UNCHANGED cmVars
    /\ UNCHANGED contVars

\* lines 97-124: one iteration of the while loop
RollDay ==
    /\ pc = "roll_loop"
    /\ LoopGuard(current, end)
    /\ LET pair == PairOn(df, current, maturity_days)
       IN IF PairChanged(pair, cur_pair)
          THEN /\ segments' = IF cur_pair # <<>>
                              THEN AppendRun(segments, seg_start, current, cur_pair)
                              ELSE segments
               /\ seg_start' = current
               /\ cur_pair' = pair
          ELSE UNCHANGED <<segments, seg_start, cur_pair>>
    /\ current' = current + 1
    /\ UNCHANGED <<pc, product, instrument_df, start, end, df, maturity_days,
                   result>>
    /\ UNCHANGED cmVars
    /\ UNCHANGED contVars

\* lines 126-145: close the last run, format and return
RollReturn ==
    /\ pc = "roll_loop"
    /\ ~LoopGuard(current, end)
    /\ LET closed == IF cur_pair # <<>>
                     THEN Append(segments, <<seg_start, end, cur_pair>>)
                     ELSE segments
       IN /\ segments' = closed
          /\ result' = FormatSegments(closed)
    /\ pc' = "roll_done"
    /\ UNCHANGED <<product, instrument_df, start, end, df, maturity_days,
                   current, cur_pair, seg_start>>
    /\ UNCHANGED cmVars
    /\ UNCHANGED contVars

Next ==
    \/ RollParseError
    \/ RollPrepare
    \/ RollDay
    \/ RollReturn

Spec == Init /\ [][Next]_vars

----------------------------------------------------------------------------
(* constant_maturity_splice *)

Abs(x) == IF x < 0 THEN 0 - x ELSE x
Sign(x) == IF x < 0 THEN 0 - 1 ELSE IF x > 0 THEN 1 ELSE 0

RECURSIVE GCD(_, _)
GCD(a, b) == IF b = 0 THEN a ELSE GCD(b, a % b)

\* the quotient n / d as a fraction in lowest terms with den > 0; a zero
\* divisor gives den = 0: an infinity of the sign of n, or NaN when n = 0
Frac(n, d) ==
    IF d = 0 THEN [num |-> Sign(n), den |-> 0]
    ELSE LET g == GCD(Abs(n), Abs(d))
         IN [num |-> (Sign(d) * n) \div g, den |-> (Sign(d) * d) \div g]

NaN == [num |-> 0, den |-> 0]

\* pd.Timedelta(days=n)
Days(n) == n * TicksPerDay

\* a grid that takes in the end date
TimeRangeClosed(d0, d1) ==
    [k \in 1..(IF d1 >= d0 THEN d1 - d0 + 1 ELSE 0) |-> Days(d0 + k - 1)]

\* pd.date_range(start=d0, end=d1, tz="UTC", inclusive="left"): midnights
TimeRange(d0, d1) ==
    [k \in 1..(IF d1 > d0 THEN d1 - d0 ELSE 0) |-> Days(d0 + k - 1)]

\* all_data[all_data["instrument_id"] == id]
RowsOfInstrument(data, id) ==
    LET Mine(row) == row.instrument_id = id IN SelectSeq(data, Mine)

\* the index holds the label t
HasLabel(rows, t) == \E i \in 1..Len(rows) : rows[i].datetime = t

\* rows.loc[t, price_col] for a label the index holds once
PriceAt(rows, t) ==
    rows[CHOOSE i \in 1..Len(rows) : rows[i].datetime = t].price

\* a weight measured from the grid time, the maturity left out
PreWeightNoMaturity(nxt_expiration, pre_expiration, t, maturity) ==
    Frac(nxt_expiration - t, nxt_expiration - pre_expiration)

\* a weight held inside [0, 1]
PreWeightClamped(nxt_expiration, pre_expiration, t, maturity) ==
    LET w == Frac(nxt_expiration - (t + maturity), nxt_expiration - pre_expiration)
    IN IF w.den = 0 THEN w
       ELSE IF w.num < 0 THEN Frac(0, 1)
       ELSE IF w.num > w.den THEN Frac(1, 1)
       ELSE w

\* the weight of the next instrument in place of the previous one's
PreWeightOfNext(nxt_expiration, pre_expiration, t, maturity) ==
    Frac((t + maturity) - pre_expiration, nxt_expiration - pre_expiration)

\* lines 206-208
PreWeight(nxt_expiration, pre_expiration, t, maturity) ==
    Frac(nxt_expiration - (t + maturity), nxt_expiration - pre_expiration)

\* line 215, for positive prices: an infinite or undefined weight gives NaN
SplicedPrice(w, pre_price, nxt_price) ==
    IF w.den = 0 THEN NaN
    ELSE Frac(w.num * pre_price + (w.den - w.num) * nxt_price, w.den)

\* the lookups of one iteration raise: iloc[0] on an empty frame
\* (IndexError) or .loc with a label the index lacks (KeyError)
SegmentRaises(seg, data) ==
    LET pre_data == RowsOfInstrument(data, IntOf(seg.p))
        nxt_data == RowsOfInstrument(data, IntOf(seg.n))
        time_range == TimeRange(seg.d0, seg.d1)
    IN \/ Len(pre_data) = 0
       \/ Len(nxt_data) = 0
       \/ \E k \in 1..Len(time_range) :
              ~HasLabel(pre_data, time_range[k]) \/ ~HasLabel(nxt_data, time_range[k])

\* lines 187-228: the frame of one segment
SegmentFrame(seg, data, symbol_days) ==
    LET pre_id == IntOf(seg.p)
        nxt_id == IntOf(seg.n)
        time_range == TimeRange(seg.d0, seg.d1)
        pre_data == RowsOfInstrument(data, pre_id)
        nxt_data == RowsOfInstrument(data, nxt_id)
        pre_expiration == pre_data[1].expiration
        nxt_expiration == nxt_data[1].expiration
    IN [k \in 1..Len(time_range) |->
          LET t == time_range[k]
              w == PreWeight(nxt_expiration, pre_expiration, t, Days(symbol_days))
          IN [datetime |-> t,
              pre_price |-> PriceAt(pre_data, t),
              pre_id |-> pre_id,
              pre_expiration |-> pre_expiration,
              next_price |-> PriceAt(nxt_data, t),
              next_id |-> nxt_id,
              next_expiration |-> nxt_expiration,
              pre_weight |-> w,
              spliced |-> SplicedPrice(w, PriceAt(pre_data, t),
                                       PriceAt(nxt_data, t))]]

\* a concatenation that keeps the last frame alone
ConcatLast(frames) == IF Len(frames) = 0 THEN <<>> ELSE frames[Len(frames)]

\* pd.concat(segments, ignore_index=True)
RECURSIVE Concat(_)
Concat(frames) ==
    IF Len(frames) = 0 THEN <<>>
    ELSE Concat(SubSeq(frames, 1, Len(frames) - 1)) \o Last(frames)

----------------------------------------------------------------------------
(* Inputs of constant_maturity_splice *)

GridDays == 0..(MaxGridDay - 1)     \* days with observations

\* the pairs a schedule names
SchedulePairs == { <<1, 2>>, <<2, 3>>, <<3, 1>> }

ScheduleSegments ==
    { [d0 |-> a, d1 |-> b, p |-> StrOf(pr[1]), n |-> StrOf(pr[2])] :
        a \in 0..MaxGridDay, b \in 0..MaxGridDay, pr \in SchedulePairs }

\* at most two segments, each with d0 <= d1, in ascending order
Schedules ==
    { sch \in {<<>>} \cup { <<x>> : x \in ScheduleSegments }
                     \cup { <<x, y>> : x \in ScheduleSegments, y \in ScheduleSegments } :
        /\ \A i \in 1..Len(sch) : sch[i].d0 <= sch[i].d1
        /\ Len(sch) = 2 => sch[1].d1 <= sch[2].d0 }

\* expirations of the instruments, in the order of their ids
ExpTables ==
    { tab \in [InstrumentIds -> ExpStamps] :
        \A i \in InstrumentIds : \A j \in InstrumentIds :
            i <= j => tab[i] <= tab[j] }

Cells == InstrumentIds \X GridDays

\* the observations a data set lacks: none, one, or all of one instrument
AbsentSets ==
    {{}} \cup { {c} : c \in Cells }
         \cup { { c \in Cells : c[1] = i } : i \in InstrumentIds }

\* the price of instrument id on day d
FixturePrice(id, d) == 10 * id + d

\* one row per instrument and grid day that is not absent, instrument by
\* instrument in grid order
RECURSIVE DataRows(_, _, _)
DataRows(tab, absent, cells) ==
    IF Len(cells) = 0 THEN <<>>
    ELSE LET c == Head(cells)
             rest == DataRows(tab, absent, Tail(cells))
         IN IF c \in absent THEN rest
            ELSE <<[instrument_id |-> c[1],
                    datetime |-> Days(c[2]),
                    price |-> FixturePrice(c[1], c[2]),
                    expiration |-> tab[c[1]]]>> \o rest

CellOrder ==
    LET n == Cardinality(GridDays)
    IN [k \in 1..(Cardinality(InstrumentIds) * n) |->
          <<((k - 1) \div n) + 1, (k - 1) % n>>]

----------------------------------------------------------------------------
(* The call constant_maturity_splice(symbol, roll_spec, all_data) *)

InitCM ==
    /\ pc = "cm_start"
    /\ product \in Products
    /\ roll_spec \in Schedules
    /\ \E tab \in ExpTables : \E absent \in AbsentSets :
          all_data = DataRows(tab, absent, CellOrder)
    /\ cm_i = 0
    /\ cm_segments = <<>>
    /\ maturity_days = 0
    /\ result = <<>>
    /\ instrument_df = <<>>
    /\ start = 0
    /\ end = 0
    /\ df = <<>>
    /\ current = 0
    /\ segments = <<>>
    /\ cur_pair = <<>>
    /\ seg_start = NoDate
    /\ mode = "none"
    /\ raw_df = <<>>
    /\ adjust_by = "price"
    /\ adjustment_cols = NoCols
    /\ spliced = <<>>
    /\ adjustments = <<>>

\* line 182: int() raises ValueError
CMParseError ==
    /\ pc = "cm_start"
    /\ ~IsIntLiteral(MaturityText(product))
    /\ pc' = "cm_error"
    /\ UNCHANGED <<product, maturity_days, result>>
    /\ UNCHANGED cmVars
    /\ UNCHANGED rollVars
    /\ UNCHANGED contVars

\* lines 182-184
CMBegin ==
    /\ pc = "cm_start"
    /\ IsIntLiteral(MaturityText(product))
    /\ maturity_days' = IntOf(MaturityText(product))
    /\ cm_i' = 1
    /\ pc' = "cm_loop"
    /\ UNCHANGED <<product, result, roll_spec, all_data, cm_segments>>
    /\ UNCHANGED rollVars
    /\ UNCHANGED contVars

\* the frame of one segment without the grid times at which either
\* instrument has no observation
SegmentFrameObserved(seg, data, symbol_days) ==
    LET pre_id == IntOf(seg.p)
        nxt_id == IntOf(seg.n)
        pre_data == RowsOfInstrument(data, pre_id)
        nxt_data == RowsOfInstrument(data, nxt_id)
        Both(t) == HasLabel(pre_data, t) /\ HasLabel(nxt_data, t)
        time_range == SelectSeq(TimeRange(seg.d0, seg.d1), Both)
        pre_expiration == pre_data[1].expiration
        nxt_expiration == nxt_data[1].expiration
    IN [k \in 1..Len(time_range) |->
          LET t == time_range[k]
              w == PreWeight(nxt_expiration, pre_expiration, t, Days(symbol_days))
          IN [datetime |-> t,
              pre_price |-> PriceAt(pre_data, t),
              pre_id |-> pre_id,
              pre_expiration |-> pre_expiration,
              next_price |-> PriceAt(nxt_data, t),
              next_id |-> nxt_id,
              next_expiration |-> nxt_expiration,
              pre_weight |-> w,
              spliced |-> SplicedPrice(w, PriceAt(pre_data, t),
                                       PriceAt(nxt_data, t))]]

\* an iteration that passes over a segment one of whose instruments has no
\* rows
CMSegmentSkipping ==
    /\ pc = "cm_loop"
    /\ cm_i <= Len(roll_spec)
    /\ LET seg == roll_spec[cm_i]
           none == \/ Len(RowsOfInstrument(all_data, IntOf(seg.p))) = 0
                   \/ Len(RowsOfInstrument(all_data, IntOf(seg.n))) = 0
       IN IF ~none /\ SegmentRaises(seg, all_data)
          THEN /\ pc' = "cm_error"
               /\ UNCHANGED <<cm_i, cm_segments>>
          ELSE /\ cm_segments' = IF none THEN cm_segments
                                 ELSE Append(cm_segments,
                                             SegmentFrame(seg, all_data, maturity_days))
               /\ cm_i' = cm_i + 1
               /\ UNCHANGED pc
    /\ UNCHANGED <<product, maturity_days, result, roll_spec, all_data>>
    /\ UNCHANGED rollVars
    /\ UNCHANGED contVars

\* an iteration that leaves out the grid times without an observation
CMSegmentDropping ==
    /\ pc = "cm_loop"
    /\ cm_i <= Len(roll_spec)
    /\ LET seg == roll_spec[cm_i]
           none == \/ Len(RowsOfInstrument(all_data, IntOf(seg.p))) = 0
                   \/ Len(RowsOfInstrument(all_data, IntOf(seg.n))) = 0
       IN IF none
          THEN /\ pc' = "cm_error"
               /\ UNCHANGED <<cm_i, cm_segments>>
          ELSE /\ cm_segments' = Append(cm_segments,
                                        SegmentFrameObserved(seg, all_data,
                                                             maturity_days))
               /\ cm_i' = cm_i + 1
               /\ UNCHANGED pc
    /\ UNCHANGED <<product, maturity_days, result, roll_spec, all_data>>
    /\ UNCHANGED rollVars
    /\ UNCHANGED contVars

\* lines 186-230: one iteration of the loop over roll_spec
CMSegment ==
    /\ pc = "cm_loop"
    /\ cm_i <= Len(roll_spec)
    /\ IF SegmentRaises(roll_spec[cm_i], all_data)
       THEN /\ pc' = "cm_error"
            /\ UNCHANGED <<cm_i, cm_segments>>
       ELSE /\ cm_segments' = Append(cm_segments,
                                     SegmentFrame(roll_spec[cm_i], all_data,
                                                  maturity_days))
            /\ cm_i' = cm_i + 1
            /\ UNCHANGED pc
    /\ UNCHANGED <<product, maturity_days, result, roll_spec, all_data>>
    /\ UNCHANGED rollVars
    /\ UNCHANGED contVars

\* lines 232-235: pd.concat raises ValueError on an empty list
CMConcat ==
    /\ pc = "cm_loop"
    /\ cm_i > Len(roll_spec)
    /\ IF Len(cm_segments) = 0
       THEN /\ pc' = "cm_error"
            /\ UNCHANGED result
       ELSE /\ pc' = "cm_done"
            /\ result' = Concat(cm_segments)
    /\ UNCHANGED <<product, maturity_days>>
    /\ UNCHANGED cmVars
    /\ UNCHANGED rollVars
    /\ UNCHANGED contVars

NextCM ==
    \/ CMParseError
    \/ CMBegin
    \/ CMSegment
    \/ CMConcat

SpecCM == InitCM /\ [][NextCM]_vars

----------------------------------------------------------------------------
(* additive_splice and multiplicative_splice                               *)
(* (src/src/finm37000/continuous.py).  The values of the price columns are *)
(* exact fractions, in the raw rows and in the output.                     *)

FracOf(n) == Frac(n, 1)
FracAdd(a, b) == Frac(a.num * b.den + b.num * a.den, a.den * b.den)
FracSub(a, b) == Frac(a.num * b.den - b.num * a.den, a.den * b.den)
FracMul(a, b) == Frac(a.num * b.num, a.den * b.den)
FracDiv(a, b) == Frac(a.num * b.den, a.den * b.num)

\* grouped.get_group(s): the rows of instrument s, in input order
GetGroup(data, s) == RowsOfInstrument(data, s)

\* a piece that takes in the rows dated d1
PieceClosed(group, d0, d1) ==
    LET Inside(row) == row.datetime >= Days(d0) /\ row.datetime <= Days(d1)
    IN SelectSeq(group, Inside)

\* lines 25, 47, 75: group[(date >= d0) & (date < d1)]
Piece(group, d0, d1) ==
    LET Inside(row) == row.datetime >= Days(d0) /\ row.datetime < Days(d1)
    IN SelectSeq(group, Inside)

\* lines 21-25: the piece of the i-th entry of the schedule
SpecPiece(rs, data, i) ==
    Piece(GetGroup(data, IntOf(rs[i].s)), rs[i].d0, rs[i].d1)

\* _splice_unadjusted raises: get_group of an instrument without rows
\* (KeyError), pd.concat of no pieces (ValueError)
SpliceRaises(rs, data) ==
    \/ Len(rs) = 0
    \/ \E i \in 1..Len(rs) : Len(GetGroup(data, IntOf(rs[i].s))) = 0

\* lines 12-27
SpliceUnadjusted(rs, data) ==
    Concat([i \in 1..Len(rs) |-> SpecPiece(rs, data, i)])

\* the rows of the group dated last_date or earlier
BoundaryRowsUpTo(group, last_date) ==
    LET Before(row) == row.datetime <= last_date IN SelectSeq(group, Before)

\* lines 49, 77: group[group[date_col] == last_date]
BoundaryRows(group, last_date) ==
    LET At(row) == row.datetime = last_date IN SelectSeq(group, At)

\* _calc_*_adjustment raises IndexError: iloc[-1] of an empty piece
\* (lines 53, 81) or of an empty adjustment_piece (lines 50, 78)
AdjustmentRaises(rs, data) ==
    \E i \in 1..Len(rs) :
        \/ Len(SpecPiece(rs, data, i)) = 0
        \/ /\ i > 1
           /\ Len(SpecPiece(rs, data, i - 1)) > 0
           /\ Len(BoundaryRows(GetGroup(data, IntOf(rs[i].s)),
                               Last(SpecPiece(rs, data, i - 1)).datetime)) = 0

\* line 50 (last_true_value - boundary value), line 78 (their quotient)
Adjustment(m, last_true_value, boundary_value) ==
    IF m = "additive"
    THEN FracSub(last_true_value, boundary_value)
    ELSE FracDiv(last_true_value, boundary_value)

\* an adjustment recorded at the date of the outgoing instrument's last row
AdjustmentDateBoundary(spec, last_date) == last_date

\* lines 43, 52 and 71, 80: the adjustment is recorded at d0
AdjustmentDate(spec, last_date) == Days(spec.d0)

\* lines 30-55 and 58-87: the series of adjustments, indexed by date
CalcAdjustment(m, rs, data, col) ==
    [k \in 1..(Len(rs) - 1) |->
        LET prev == Last(SpecPiece(rs, data, k))
            group == GetGroup(data, IntOf(rs[k + 1].s))
            boundary == Last(BoundaryRows(group, prev.datetime))
        IN [date |-> AdjustmentDate(rs[k + 1], prev.datetime),
            value |-> Adjustment(m, prev[col], boundary[col])]]

\* lines 55, 83-87: the name of the series
AdjustmentName(m) ==
    IF m = "additive" THEN "additive_adjustment"
    ELSE "multiplicative_adjustment"

\* lines 125-130, 177-182: left merge on the date against the index of the
\* adjustments; adj is <<>> where no adjustment carries the date of the row
MergeLeft(left, adjs) ==
    Concat([i \in 1..Len(left) |->
        LET Matches(a) == a.date = left[i].datetime
            found == SelectSeq(adjs, Matches)
        IN IF Len(found) = 0
           THEN <<[row |-> left[i], adj |-> <<>>]>>
           ELSE [j \in 1..Len(found) |->
                    [row |-> left[i], adj |-> <<found[j].value>>]]])

\* lines 133, 185: fillna(0), fillna(1)
FillNa(m, adj) ==
    IF adj = <<>>
    THEN (IF m = "additive" THEN FracOf(0) ELSE FracOf(1))
    ELSE adj[1]

\* + of lines 134, 136 and * of lines 186, 188
Accumulate(m, x, y) == IF m = "additive" THEN FracAdd(x, y) ELSE FracMul(x, y)

\* lines 134, 186: cumsum(), cumprod() at row k
RECURSIVE Cumulative(_, _, _)
Cumulative(m, merged, k) ==
    IF k = 1 THEN FillNa(m, merged[1].adj)
    ELSE Accumulate(m, Cumulative(m, merged, k - 1), FillNa(m, merged[k].adj))

\* adjustment_cols with the adjust_by column always among them
EffectiveColsWithAdjustBy(cols, by) ==
    IF cols = NoCols THEN <<by>>
    ELSE IF \E i \in 1..Len(cols) : cols[i] = by THEN cols
    ELSE cols \o <<by>>

\* lines 116-117, 168-169
EffectiveCols(cols, by) == IF cols = NoCols THEN <<by>> ELSE cols

\* every value column adjusted, whatever the list
AdjustAllCols(m, row, cols, cum) ==
    [row EXCEPT !.price = Accumulate(m, @, cum),
                !.alt_price = Accumulate(m, @, cum)]

\* lines 135-136, 187-188: the loop over adjustment_cols
RECURSIVE AdjustCols(_, _, _, _)
AdjustCols(m, row, cols, cum) ==
    IF Len(cols) = 0 THEN row
    ELSE AdjustCols(m, [row EXCEPT ![Head(cols)] = Accumulate(m, @, cum)],
                    Tail(cols), cum)

\* lines 137-139, 189-191: the columns of df and the adjustment column
WithColumn(row, name, value) ==
    [c \in (DOMAIN row) \cup {name} |-> IF c = name THEN value ELSE row[c]]

\* lines 125-139, 177-191
Adjusted(m, left, adjs, cols) ==
    LET merged == MergeLeft(left, adjs)
    IN [k \in 1..Len(merged) |->
          LET cum == Cumulative(m, merged, k)
          IN WithColumn(AdjustCols(m, merged[k].row, cols, cum),
                        AdjustmentName(m), cum)]

----------------------------------------------------------------------------
(* Inputs of the splicers, after src/tests/test_continuous.py *)

ContIds == {1, 2}           \* instrument ids of the raw data
ContDays == {0, 1, 2}       \* days with observations
ContBounds == {0, 1, 2, 3}  \* d0 and d1 of a schedule entry

ContSegments ==
    { [d0 |-> a, d1 |-> b, s |-> StrOf(i)] :
        a \in ContBounds, b \in ContBounds, i \in ContIds }

\* the cut points of three adjoining entries
ContCuts ==
    { c \in ContBounds \X ContBounds \X ContBounds \X ContBounds :
        c[1] < c[2] /\ c[2] < c[3] /\ c[3] < c[4] }

\* every schedule of at most two entries, well formed or not, and the
\* schedules of three adjoining entries
ContSchedules ==
    {<<>>} \cup { <<x>> : x \in ContSegments }
           \cup { <<x, y>> : x \in ContSegments, y \in ContSegments }
           \cup { <<[d0 |-> c[1], d1 |-> c[2], s |-> StrOf(i)],
                    [d0 |-> c[2], d1 |-> c[3], s |-> StrOf(j)],
                    [d0 |-> c[3], d1 |-> c[4], s |-> StrOf(k)]>> :
                    c \in ContCuts, i \in ContIds, j \in ContIds, k \in ContIds }

ContCells == ContIds \X ContDays

\* the observations a data set lacks: at most one of each instrument, or
\* every observation of the last instrument
ContAbsentSets ==
    LET OneOrNone(i) == {{}} \cup { {<<i, d>>} : d \in ContDays }
    IN { a \cup b : a \in OneOrNone(1), b \in OneOrNone(2) }
       \cup { { c \in ContCells : c[1] = 2 } }

\* the values of instrument id on day d
ContPrice(id, d) == 10 * id + (id + d) * d
ContAltPrice(id, d) == 5 + 3 * id + d

RECURSIVE ContRows(_, _)
ContRows(absent, cells) ==
    IF Len(cells) = 0 THEN <<>>
    ELSE LET c == Head(cells)
             rest == ContRows(absent, Tail(cells))
         IN IF c \in absent THEN rest
            ELSE <<[instrument_id |-> c[1],
                    datetime |-> Days(c[2]),
                    price |-> FracOf(ContPrice(c[1], c[2])),
                    alt_price |-> FracOf(ContAltPrice(c[1], c[2]))]>> \o rest

ContCellOrder ==
    LET n == Cardinality(ContDays)
    IN [k \in 1..(Cardinality(ContIds) * n) |->
          <<((k - 1) \div n) + 1, (k - 1) % n>>]

\* adjustment_cols as the tests pass it, and a list without adjust_by
ColumnLists == { NoCols, <<"price", "alt_price">>, <<"alt_price">> }

----------------------------------------------------------------------------
(* The calls additive_splice(roll_spec, df, ...) and                       *)
(* multiplicative_splice(roll_spec, df, ...)                               *)

InitCont ==
    /\ pc = "cont_start"
    /\ mode \in {"additive", "multiplicative"}
    /\ roll_spec \in ContSchedules
    /\ \E absent \in ContAbsentSets : raw_df = ContRows(absent, ContCellOrder)
    /\ adjust_by = "price"
    /\ adjustment_cols \in ColumnLists
    /\ spliced = <<>>
    /\ adjustments = <<>>
    /\ result = <<>>
    /\ product = <<>>
    /\ maturity_days = 0
    /\ all_data = <<>>
    /\ cm_i = 0
    /\ cm_segments = <<>>
    /\ instrument_df = <<>>
    /\ start = 0
    /\ end = 0
    /\ df = <<>>
    /\ current = 0
    /\ segments = <<>>
    /\ cur_pair = <<>>
    /\ seg_start = NoDate

\* lines 118, 170: _splice_unadjusted
ContSplice ==
    /\ pc = "cont_start"
    /\ IF SpliceRaises(roll_spec, raw_df)
       THEN /\ pc' = "cont_error"
            /\ UNCHANGED spliced
       ELSE /\ pc' = "cont_spliced"
            /\ spliced' = SpliceUnadjusted(roll_spec, raw_df)
    /\ UNCHANGED <<mode, raw_df, adjust_by, adjustment_cols, adjustments>>
    /\ UNCHANGED <<product, maturity_days, result>>
    /\ UNCHANGED cmVars
    /\ UNCHANGED rollVars

\* lines 119-124, 171-176: _calc_additive_adjustment,
\* _calc_multiplicative_adjustment
ContAdjust ==
    /\ pc = "cont_spliced"
    /\ IF AdjustmentRaises(roll_spec, raw_df)
       THEN /\ pc' = "cont_error"
            /\ UNCHANGED adjustments
       ELSE /\ pc' = "cont_adjusted"
            /\ adjustments' = CalcAdjustment(mode, roll_spec, raw_df, adjust_by)
    /\ UNCHANGED <<mode, raw_df, adjust_by, adjustment_cols, spliced>>
    /\ UNCHANGED <<product, maturity_days, result>>
    /\ UNCHANGED cmVars
    /\ UNCHANGED rollVars

\* lines 116-117, 125-139 and 168-169, 177-191: merge, accumulate, adjust
ContReturn ==
    /\ pc = "cont_adjusted"
    /\ result' = Adjusted(mode, spliced, adjustments,
                          EffectiveCols(adjustment_cols, adjust_by))
    /\ pc' = "cont_done"
    /\ UNCHANGED contVars
    /\ UNCHANGED <<product, maturity_days>>
    /\ UNCHANGED cmVars
    /\ UNCHANGED rollVars

NextCont ==
    \/ ContSplice
    \/ ContAdjust
    \/ ContReturn

SpecCont == InitCont /\ [][NextCont]_vars

----------------------------------------------------------------------------
(* get_roll_spec and constant_maturity_splice called with one family of    *)
(* symbols: well formed, without a dot, signed, of two digits, and with a  *)
(* last component that is empty or not a number                            *)

ParseProducts ==
    { <<"A", ".", "c", ".", "1">>,
      <<"A", ".", "c", ".", "2">>,
      <<"A", ".", "1", "2">>,
      <<"2">>,
      <<"A", ".", "c", ".", "-", "1">>,
      <<"A", ".", "c", ".", "+", "1">>,
      <<"A", ".", "c", ".", "x">>,
      <<"A", ".", "c", ".", "1", "x">>,
      <<"A", ".", "1", ".", "c">>,
      <<"A", ".", "c", ".">>,
      <<"A", ".", "c", ".", "-">>,
      <<>> }

\* catalogs of eligible outrights listed before the range
ParseCatalogs ==
    { cat \in Catalogs :
        \A i \in InstrumentIds : cat[i].kind = EligibleKind /\ cat[i].ts_recv = 0 }

InitParse ==
    /\ product \in ParseProducts
    /\ \/ /\ pc = "roll_start"
          /\ \E cat \in ParseCatalogs : instrument_df = CatalogRows(cat)
          /\ end \in 0..MaxDay
          /\ roll_spec = <<>>
          /\ all_data = <<>>
       \/ /\ pc = "cm_start"
          /\ roll_spec \in Schedules
          /\ \E tab \in ExpTables : all_data = DataRows(tab, {}, CellOrder)
          /\ instrument_df = <<>>
          /\ end = 0
    /\ start = 0
    /\ df = <<>>
    /\ maturity_days = 0
    /\ current = 0
    /\ segments = <<>>
    /\ cur_pair = <<>>
    /\ seg_start = NoDate
    /\ result = <<>>
    /\ cm_i = 0
    /\ cm_segments = <<>>
    /\ mode = "none"
    /\ raw_df = <<>>
    /\ adjust_by = "price"
    /\ adjustment_cols = NoCols
    /\ spliced = <<>>
    /\ adjustments = <<>>

NextParse ==
    \/ Next
    \/ NextCM

SpecParse == InitParse /\ [][NextParse]_vars

----------------------------------------------------------------------------
(* The returned schedule, read against the catalog as it was passed in *)

RollDone == pc = "roll_done"

RowOf(id) ==
    instrument_df[CHOOSE i \in 1..Len(instrument_df) :
                      instrument_df[i].instrument_id = id]

ExpDate(id) == RowOf(id).expiration \div TicksPerDay
LiveDate(id) == RowOf(id).ts_recv \div TicksPerDay

\* the text of the product before its first dot
RootText ==
    LET k == CHOOSE j \in 1..(Len(product) + 1) :
                 /\ \A h \in 1..(j - 1) : product[h] # "."
                 /\ (j = Len(product) + 1 \/ product[j] = ".")
    IN SubSeq(product, 1, k - 1)

IsOutrightOfRoot(id) ==
    /\ RowOf(id).instrument_class = "F"
    /\ SubSeq(RowOf(id).raw_symbol, 1, Len(RootText)) = RootText

AllIds == { instrument_df[i].instrument_id : i \in 1..Len(instrument_df) }
OutrightIds == { x \in AllIds : IsOutrightOfRoot(x) }
LiveOn(d) == { x \in OutrightIds : LiveDate(x) <= d }

RangeDays == start..(end - 1)
DaysOf(seg) == seg.d0..(seg.d1 - 1)
PreOf(seg) == IntOf(seg.p)
NextOf(seg) == IntOf(seg.n)
Schedule == 1..Len(result)
Covering(d) == { i \in Schedule : d \in DaysOf(result[i]) }

\* some live outright expires before the target of day d, some on or after
Selectable(d) ==
    /\ \E a \in LiveOn(d) : ExpDate(a) < d + maturity_days
    /\ \E b \in LiveOn(d) : ExpDate(b) >= d + maturity_days

\* C1: on every day d of every returned segment, p is a live eligible
\* outright expiring before d + T with no live eligible outright expiring
\* later and still before d + T, and n is a live eligible outright expiring
\* on or after d + T with none expiring earlier and still on or after d + T.
C1_Straddle ==
    RollDone =>
        \A i \in Schedule : \A d \in DaysOf(result[i]) :
            LET target == d + maturity_days
                p == PreOf(result[i])
                n == NextOf(result[i])
            IN /\ p \in LiveOn(d)
               /\ n \in LiveOn(d)
               /\ ExpDate(p) < target
               /\ target <= ExpDate(n)
               /\ \A q \in LiveOn(d) :
                     /\ ~(ExpDate(p) < ExpDate(q) /\ ExpDate(q) < target)
                     /\ ~(target <= ExpDate(q) /\ ExpDate(q) < ExpDate(n))

\* a schedule of two segments, one of them two days long, picked among three
\* live outrights
C1_Witness ==
    /\ RollDone
    /\ Len(result) >= 2
    /\ \E i \in Schedule : result[i].d1 - result[i].d0 >= 2
    /\ \E i \in Schedule : Cardinality(LiveOn(result[i].d0)) = 3

\* the day on which the target date is the expiration date of x
TieDay(x) == ExpDate(x) - maturity_days

\* C2 as claimed: on the day e - T an outright x expiring on e is the next
\* instrument of the covering segment, on the day after it is the previous
\* one when a later-expiring live outright exists, and a boundary at which
\* x passes from next to previous is at e - T + 1.
C2_TieAsClaimed ==
    RollDone =>
        \A x \in OutrightIds :
            /\ (TieDay(x) \in RangeDays /\ x \in LiveOn(TieDay(x)))
                   => \E i \in Covering(TieDay(x)) : NextOf(result[i]) = x
            /\ ( /\ TieDay(x) + 1 \in RangeDays
                 /\ x \in LiveOn(TieDay(x) + 1)
                 /\ \E y \in LiveOn(TieDay(x) + 1) : ExpDate(y) > ExpDate(x) )
                   => \E i \in Covering(TieDay(x) + 1) : PreOf(result[i]) = x
            /\ \A i \in Schedule :
                   ( /\ i < Len(result)
                     /\ result[i].d1 = result[i + 1].d0
                     /\ NextOf(result[i]) = x
                     /\ PreOf(result[i + 1]) = x )
                       => result[i + 1].d0 = TieDay(x) + 1

\* no other live outright shares the expiration date of x on day d
AloneOnDate(x, d) == \A y \in LiveOn(d) : ExpDate(y) = ExpDate(x) => y = x

\* C2 amended: the same, for an outright that shares its expiration date
\* with no other live outright, and with an earlier-expiring live outright
\* present on the day e - T.
C2_TieConvention ==
    RollDone =>
        \A x \in OutrightIds :
            /\ ( /\ TieDay(x) \in RangeDays
                 /\ x \in LiveOn(TieDay(x))
                 /\ AloneOnDate(x, TieDay(x))
                 /\ \E y \in LiveOn(TieDay(x)) : ExpDate(y) < ExpDate(x) )
                   => \E i \in Covering(TieDay(x)) : NextOf(result[i]) = x
            /\ ( /\ TieDay(x) + 1 \in RangeDays
                 /\ x \in LiveOn(TieDay(x) + 1)
                 /\ AloneOnDate(x, TieDay(x) + 1)
                 /\ \E y \in LiveOn(TieDay(x) + 1) : ExpDate(y) > ExpDate(x) )
                   => \E i \in Covering(TieDay(x) + 1) : PreOf(result[i]) = x
            /\ \A i \in Schedule :
                   ( /\ i < Len(result)
                     /\ result[i].d1 = result[i + 1].d0
                     /\ NextOf(result[i]) = x
                     /\ PreOf(result[i + 1]) = x )
                       => result[i + 1].d0 = TieDay(x) + 1

\* an outright that is next on its tie day and previous from the day after
C2_Witness ==
    /\ RollDone
    /\ \E x \in OutrightIds : \E i \in Schedule :
          /\ i < Len(result)
          /\ NextOf(result[i]) = x
          /\ PreOf(result[i + 1]) = x
          /\ TieDay(x) = result[i].d1 - 1
          /\ result[i + 1].d0 = TieDay(x) + 1
          /\ AloneOnDate(x, TieDay(x))

\* C3 as claimed: consecutive segments of a returned schedule share their
\* boundary date.
C3_ContiguousAsClaimed ==
    RollDone =>
        \A i \in Schedule :
            i < Len(result) => result[i].d1 = result[i + 1].d0

\* C3 amended: consecutive segments never overlap, and every day left
\* between them is a day on which no pair of live outrights straddles the
\* target; they share their boundary date otherwise.
C3_ContiguousUpToGaps ==
    RollDone =>
        \A i \in Schedule :
            i < Len(result) =>
                /\ result[i].d1 <= result[i + 1].d0
                /\ \A d \in result[i].d1..(result[i + 1].d0 - 1) : ~Selectable(d)
                /\ Selectable(result[i].d1) => result[i].d1 = result[i + 1].d0

\* a schedule with a shared boundary, and one with a gap
C3_Witness ==
    /\ RollDone
    /\ \E i \in Schedule :
          /\ i < Len(result)
          /\ result[i].d1 < result[i + 1].d0

C3_WitnessShared ==
    /\ RollDone
    /\ \E i \in Schedule :
          /\ i < Len(result)
          /\ result[i].d1 = result[i + 1].d0

\* C4: on every day of a returned segment the loop's selection is the
\* segment's pair, and two segments that follow each other in the schedule
\* name different pairs.
C4_RunLength ==
    RollDone =>
        /\ \A i \in Schedule : \A d \in DaysOf(result[i]) :
              PairOn(df, d, maturity_days)
                  = <<PreOf(result[i]), NextOf(result[i])>>
        /\ \A i \in Schedule :
              i < Len(result) =>
                  <<result[i].p, result[i].n>>
                      # <<result[i + 1].p, result[i + 1].n>>

\* a run of two days merged into one segment, followed by another segment
C4_Witness ==
    /\ RollDone
    /\ \E i \in Schedule :
          /\ i < Len(result)
          /\ result[i].d1 - result[i].d0 >= 2
          /\ result[i].d1 = result[i + 1].d0

\* C5: every returned segment has d0 < d1, segments are in ascending date
\* order without overlap, the first starts on or after start and the last
\* ends on or before end.
C5_WellFormed ==
    RollDone =>
        /\ \A i \in Schedule : result[i].d0 < result[i].d1
        /\ \A i \in Schedule :
              i < Len(result) => result[i].d1 <= result[i + 1].d0
        /\ Len(result) > 0 =>
              /\ start <= result[1].d0
              /\ result[Len(result)].d1 <= end

\* a schedule of two segments that starts after start and whose last run is
\* closed at end
C5_Witness ==
    /\ RollDone
    /\ Len(result) >= 2
    /\ start < result[1].d0
    /\ result[Len(result)].d1 = end

\* the pair picked among the outrights listed before day d
LiveBefore(d) == { x \in OutrightIds : LiveDate(x) < d }
OldPre(d) ==
    { a \in LiveBefore(d) :
        /\ ExpDate(a) < d + maturity_days
        /\ \A q \in LiveBefore(d) :
              ExpDate(q) < d + maturity_days => ExpDate(q) <= ExpDate(a) }
OldNext(d) ==
    { b \in LiveBefore(d) :
        /\ ExpDate(b) >= d + maturity_days
        /\ \A q \in LiveBefore(d) :
              ExpDate(q) >= d + maturity_days => ExpDate(b) <= ExpDate(q) }

\* x is listed on day d and expires between the pair of the outrights
\* listed earlier, on either side of the target
ListingChangesPair(x, d) ==
    /\ x \in OutrightIds
    /\ LiveDate(x) = d
    /\ OldPre(d) # {}
    /\ OldNext(d) # {}
    /\ \/ \E a \in OldPre(d) :
             ExpDate(a) < ExpDate(x) /\ ExpDate(x) < d + maturity_days
       \/ \E b \in OldNext(d) :
             d + maturity_days <= ExpDate(x) /\ ExpDate(x) < ExpDate(b)

\* C6: no returned segment names an instrument on a day before its listing
\* date, and a day of the range on which a newly listed outright changes
\* the straddling pair is the first day of a segment.
C6_Listing ==
    RollDone =>
        /\ \A i \in Schedule : \A d \in DaysOf(result[i]) :
              /\ LiveDate(PreOf(result[i])) <= d
              /\ LiveDate(NextOf(result[i])) <= d
        /\ \A d \in RangeDays : \A x \in AllIds :
              ListingChangesPair(x, d) =>
                  \E i \in Schedule :
                      /\ result[i].d0 = d
                      /\ x \in {PreOf(result[i]), NextOf(result[i])}

\* a segment that starts, after another one, on the listing day of the
\* instrument it names
C6_Witness ==
    /\ RollDone
    /\ \E i \in Schedule : \E x \in AllIds :
          /\ i > 1
          /\ result[i - 1].d1 = result[i].d0
          /\ ListingChangesPair(x, result[i].d0)
          /\ x \in {PreOf(result[i]), NextOf(result[i])}

\* the catalog without its rows of class "S"
WithoutSpreads(cat) ==
    LET NotSpread(row) == row.instrument_class # "S" IN SelectSeq(cat, NotSpread)

\* C7: every instrument of a returned segment is an outright future whose
\* raw symbol starts with the root, and on every day of the range the
\* schedule gives what the loop selects from the catalog without spreads.
C7_Eligibility ==
    RollDone =>
        /\ \A i \in Schedule :
              /\ PreOf(result[i]) \in OutrightIds
              /\ NextOf(result[i]) \in OutrightIds
        /\ \A d \in RangeDays :
              LET clean == SortByExp(WithDates(
                               FilterCatalog(WithoutSpreads(instrument_df),
                                             Root(product))))
                  pair == PairOn(clean, d, maturity_days)
              IN IF pair = <<NoneV, NoneV>>
                 THEN Covering(d) = {}
                 ELSE \E i \in Covering(d) :
                          <<PreOf(result[i]), NextOf(result[i])>> = pair

\* a non-empty schedule from a catalog that holds a spread of this root
\* expiring between the pair of the first segment
C7_Witness ==
    /\ RollDone
    /\ Len(result) > 0
    /\ \E x \in AllIds :
          /\ RowOf(x).instrument_class = "S"
          /\ ExpDate(PreOf(result[1])) < ExpDate(x)
          /\ ExpDate(x) < ExpDate(NextOf(result[1]))
          /\ LiveDate(x) <= result[1].d0

\* C8 as claimed: a call with start < end that returns leaves no day of
\* the range outside every segment.
C8_CoverageAsClaimed ==
    (RollDone /\ start < end) =>
        \A d \in RangeDays : Covering(d) # {}

\* C8 amended: a call that returns covers exactly the days of the range on
\* which a pair of live outrights straddles the target, each by one
\* segment; the other days are left out and raise no error.
C8_CoverageOfSelectable ==
    /\ RollDone =>
          \A d \in RangeDays :
              IF Selectable(d)
              THEN Cardinality(Covering(d)) = 1
              ELSE Covering(d) = {}
    /\ pc = "roll_error" => ~IsIntLiteral(MaturityText(product))

\* a returned schedule with a covered day before and after an uncovered one
C8_Witness ==
    /\ RollDone
    /\ \E d \in RangeDays :
          /\ Covering(d) = {}
          /\ Covering(d - 1) # {}
          /\ Covering(d + 1) # {}

----------------------------------------------------------------------------
(* The spliced series, read against the schedule and the price rows as they
   were passed in *)

CMDone == pc = "cm_done"

DataIndex(id) == { i \in 1..Len(all_data) : all_data[i].instrument_id = id }

\* the expiration of the first row of instrument id
DataExpiration(id) ==
    all_data[CHOOSE i \in DataIndex(id) : \A j \in DataIndex(id) : i <= j].expiration

Observed(id, t) == \E i \in DataIndex(id) : all_data[i].datetime = t

DataPrice(id, t) ==
    all_data[CHOOSE i \in DataIndex(id) : all_data[i].datetime = t].price

\* T as a duration
MaturityTicks == maturity_days * TicksPerDay

\* C9: every output row carries the expirations and the prices at its grid
\* time of its two instruments; where the two expirations differ, its
\* pre_weight is (next_expiration - (t + T)) / (next_expiration -
\* pre_expiration) and its blended price is
\* pre_weight * pre_price + (1 - pre_weight) * next_price.
C9_Interpolation ==
    CMDone =>
        \A k \in 1..Len(result) :
            LET r == result[k]
                pe == DataExpiration(r.pre_id)
                ne == DataExpiration(r.next_id)
                pp == DataPrice(r.pre_id, r.datetime)
                np == DataPrice(r.next_id, r.datetime)
                w == r.pre_weight
            IN /\ r.pre_expiration = pe
               /\ r.next_expiration = ne
               /\ r.pre_price = pp
               /\ r.next_price = np
               /\ ne # pe =>
                     /\ w.den > 0
                     /\ w.num * (ne - pe) = (ne - (r.datetime + MaturityTicks)) * w.den
                     /\ r.spliced.den > 0
                     /\ r.spliced.num * w.den
                            = r.spliced.den * (w.num * pp + (w.den - w.num) * np)

\* a row whose weight lies strictly between 0 and 1 and is not one half
C9_Witness ==
    /\ CMDone
    /\ \E k \in 1..Len(result) :
          /\ 0 < result[k].pre_weight.num
          /\ result[k].pre_weight.num < result[k].pre_weight.den
          /\ 2 * result[k].pre_weight.num # result[k].pre_weight.den
          /\ result[k].spliced.den > 1

\* rows of the segments before segment i
RECURSIVE RowsBefore(_)
RowsBefore(i) ==
    IF i <= 1 THEN 0
    ELSE RowsBefore(i - 1) + (roll_spec[i - 1].d1 - roll_spec[i - 1].d0)

\* what makes a call raise: the symbol, an empty schedule, an instrument of
\* a segment without rows, or a grid day of a segment without an observation
RaiseCause ==
    \/ ~IsIntLiteral(MaturityText(product))
    \/ Len(roll_spec) = 0
    \/ \E i \in 1..Len(roll_spec) : \E id \in {IntOf(roll_spec[i].p), IntOf(roll_spec[i].n)} :
          \/ DataIndex(id) = {}
          \/ \E d \in roll_spec[i].d0..(roll_spec[i].d1 - 1) :
                ~Observed(id, d * TicksPerDay)

\* C10: the output holds, segment after segment in schedule order, one row
\* for each day d0, d0 + 1, ..., d1 - 1 in that order, so that its length is
\* the sum of the d1 - d0; a segment with d0 = d1 adds no row, and a call
\* raises only for a cause other than such a segment.
C10_RowGrid ==
    /\ CMDone =>
          /\ Len(result) = RowsBefore(Len(roll_spec) + 1)
          /\ \A i \in 1..Len(roll_spec) :
                \A k \in 1..(roll_spec[i].d1 - roll_spec[i].d0) :
                    LET r == result[RowsBefore(i) + k]
                    IN /\ r.datetime = (roll_spec[i].d0 + k - 1) * TicksPerDay
                       /\ r.pre_id = IntOf(roll_spec[i].p)
                       /\ r.next_id = IntOf(roll_spec[i].n)
    /\ pc = "cm_error" => RaiseCause

\* an output of two rows from a schedule of two segments, the first of them
\* with d0 = d1
C10_Witness ==
    /\ CMDone
    /\ Len(roll_spec) = 2
    /\ roll_spec[1].d0 = roll_spec[1].d1
    /\ roll_spec[2].d1 - roll_spec[2].d0 = 2
    /\ Len(result) = 2

----------------------------------------------------------------------------
(* The adjusted series, read against the schedule and the raw rows as they
   were passed in *)

ContDone == pc = "cont_done"
ContFailed == pc = "cont_error"

SegInst(i) == IntOf(roll_spec[i].s)
SegFrom(i) == roll_spec[i].d0 * TicksPerDay
SegTo(i) == roll_spec[i].d1 * TicksPerDay

\* every entry runs forward and none starts before its predecessor ends
Ordered ==
    /\ Len(roll_spec) >= 1
    /\ \A i \in 1..Len(roll_spec) : roll_spec[i].d0 < roll_spec[i].d1
    /\ \A i \in 1..(Len(roll_spec) - 1) : roll_spec[i].d1 <= roll_spec[i + 1].d0

\* ordered, and every entry starts where its predecessor ends
Adjoining ==
    /\ Ordered
    /\ \A i \in 1..(Len(roll_spec) - 1) : roll_spec[i].d1 = roll_spec[i + 1].d0

RawIndex(id) == { j \in 1..Len(raw_df) : raw_df[j].instrument_id = id }

RawObserved(id, t) == \E j \in RawIndex(id) : raw_df[j].datetime = t

RawAt(id, t) == raw_df[CHOOSE j \in RawIndex(id) : raw_df[j].datetime = t]

\* the times at which the instrument of entry i is observed inside the entry
SegTimes(i) ==
    { raw_df[j].datetime :
        j \in { n \in RawIndex(SegInst(i)) :
                  SegFrom(i) <= raw_df[n].datetime /\ raw_df[n].datetime < SegTo(i) } }

\* the date d of the last row of entry i
LastObs(i) == CHOOSE t \in SegTimes(i) : \A u \in SegTimes(i) : u <= t

\* at the transition out of entry i: the value of the outgoing instrument
\* and of the incoming instrument at d, whole numbers in the raw data
OutValue(i) == RawAt(SegInst(i), LastObs(i))[adjust_by].num
InValue(i) == RawAt(SegInst(i + 1), LastObs(i))[adjust_by].num

\* the entry an output row belongs to, for an ordered schedule
SegOfRow(r) ==
    CHOOSE i \in 1..Len(roll_spec) : SegFrom(i) <= r.datetime /\ r.datetime < SegTo(i)

AdjCol ==
    IF mode = "additive" THEN "additive_adjustment" ELSE "multiplicative_adjustment"

AdjOf(r) == r[AdjCol]

\* the fraction x is n / d
IsRatio(x, n, d) == x.den > 0 /\ x.num * d = n * x.den

\* the sum of the adjustments of the transitions before entry k
RECURSIVE ExpectedSum(_)
ExpectedSum(k) ==
    IF k <= 1 THEN 0 ELSE ExpectedSum(k - 1) + (OutValue(k - 1) - InValue(k - 1))

\* the product of the adjustments of the transitions before entry k, as a
\* numerator and a denominator
RECURSIVE ExpectedNum(_)
ExpectedNum(k) == IF k <= 1 THEN 1 ELSE ExpectedNum(k - 1) * OutValue(k - 1)

RECURSIVE ExpectedDen(_)
ExpectedDen(k) == IF k <= 1 THEN 1 ELSE ExpectedDen(k - 1) * InValue(k - 1)

\* the columns the call adjusts
AdjustedCols ==
    IF adjustment_cols = NoCols THEN {adjust_by}
    ELSE { adjustment_cols[i] : i \in 1..Len(adjustment_cols) }

\* an incoming instrument without a row dated d0 of its entry
NoRowAtStart(i) == ~RawObserved(SegInst(i), SegFrom(i))

\* C11: in additive_splice over an adjoining schedule, the adjustment of the
\* transition out of entry i is A(d) - B(d), d the date of the last row of
\* entry i and B(d) read from the whole series of the incoming instrument,
\* and B(d) plus the cumulative adjustment of the rows of entry i + 1 equals
\* A(d) plus the cumulative adjustment of the rows of entry i.
C11_ContinuityAsClaimed ==
    (ContDone /\ mode = "additive" /\ Adjoining) =>
        \A i \in 1..(Len(roll_spec) - 1) :
            /\ IsRatio(adjustments[i].value, OutValue(i) - InValue(i), 1)
            /\ \A k \in 1..Len(result) : \A l \in 1..Len(result) :
                  (SegOfRow(result[k]) = i /\ SegOfRow(result[l]) = i + 1) =>
                      LET before == AdjOf(result[k])
                          after == AdjOf(result[l])
                      IN (InValue(i) * after.den + after.num) * before.den
                             = (OutValue(i) * before.den + before.num) * after.den

\* C12: every output row of the k-th entry of an adjoining schedule carries
\* in the adjustment column the sum (additive) or the product
\* (multiplicative) of the adjustments of the transitions before that
\* entry, 0 or 1 for the first entry, also when the instrument of the entry
\* has no row dated d0 of the entry.
C12_CumulativeAsClaimed ==
    (ContDone /\ Adjoining) =>
        \A k \in 1..Len(result) :
            LET i == SegOfRow(result[k])
            IN IF mode = "additive"
               THEN IsRatio(AdjOf(result[k]), ExpectedSum(i), 1)
               ELSE IsRatio(AdjOf(result[k]), ExpectedNum(i), ExpectedDen(i))

\* the same for the schedules whose every incoming instrument has a row
\* dated d0 of its entry
C12_CumulativeWithStartRows ==
    (ContDone /\ Adjoining /\ \A i \in 2..Len(roll_spec) : ~NoRowAtStart(i)) =>
        \A k \in 1..Len(result) :
            LET i == SegOfRow(result[k])
            IN IF mode = "additive"
               THEN IsRatio(AdjOf(result[k]), ExpectedSum(i), 1)
               ELSE IsRatio(AdjOf(result[k]), ExpectedNum(i), ExpectedDen(i))

\* the cumulative adjustment that changes nothing
IsIdentity(x) == IF mode = "additive" THEN IsRatio(x, 0, 1) ELSE IsRatio(x, 1, 1)

\* C13: in the output of either splicer over an ordered schedule, every row
\* of the first entry holds its raw value in every value column, adjusted
\* or not, and the identity (0 additive, 1 multiplicative) in the
\* adjustment column.
C13_AnchorIdentity ==
    (ContDone /\ Ordered) =>
        \A k \in 1..Len(result) :
            SegOfRow(result[k]) = 1 =>
                LET raw == RawAt(SegInst(1), result[k].datetime)
                IN /\ IsIdentity(AdjOf(result[k]))
                   /\ result[k].price = raw.price
                   /\ result[k].alt_price = raw.alt_price

\* a first entry of two rows, followed by rows that are adjusted
C13_Witness ==
    /\ ContDone
    /\ Ordered
    /\ Cardinality(SegTimes(1)) = 2
    /\ \E k \in 1..Len(result) :
          /\ SegOfRow(result[k]) = 1
          /\ SegInst(1) = result[k].instrument_id
    /\ \E k \in 1..Len(result) :
          /\ SegOfRow(result[k]) > 1
          /\ ~IsIdentity(AdjOf(result[k]))
          /\ result[k].price # RawAt(result[k].instrument_id, result[k].datetime).price

\* the raw row an output row was taken from
RawOf(r) == RawAt(r.instrument_id, r.datetime)

\* C14: in multiplicative_splice over an adjoining schedule, the adjustment
\* of the transition out of entry i is A(d) / B(d), and every adjusted
\* value of a row equals its raw value times the product of the adjustments
\* of the transitions before the entry of the row.
C14_MultiplicativeAsClaimed ==
    (ContDone /\ mode = "multiplicative" /\ Adjoining) =>
        /\ \A i \in 1..(Len(roll_spec) - 1) :
              IsRatio(adjustments[i].value, OutValue(i), InValue(i))
        /\ \A k \in 1..Len(result) : \A col \in AdjustedCols :
              LET i == SegOfRow(result[k])
              IN IsRatio(result[k][col],
                         RawOf(result[k])[col].num * ExpectedNum(i), ExpectedDen(i))

\* the fraction x is the raw value adjusted by adj: their sum (additive) or
\* their product (multiplicative)
IsApplied(x, raw, adj) ==
    /\ x.den > 0
    /\ IF mode = "additive"
       THEN x.num * raw.den * adj.den
                = (raw.num * adj.den + adj.num * raw.den) * x.den
       ELSE x.num * raw.den * adj.den = raw.num * adj.num * x.den

\* C15 as claimed: every column of adjustment_cols and the adjust_by column,
\* named there or not, is output as the raw value adjusted by the
\* cumulative adjustment of its row.
C15_AdjustByAsClaimed ==
    ContDone =>
        \A k \in 1..Len(result) : \A col \in AdjustedCols \cup {adjust_by} :
            IsApplied(result[k][col], RawOf(result[k])[col], AdjOf(result[k]))

\* C15: the adjusted columns are those of adjustment_cols, or the adjust_by
\* column alone when adjustment_cols is None; each is output as the raw
\* value adjusted by the cumulative adjustment of its row, and an adjust_by
\* column that a given adjustment_cols does not name is output raw.
C15_AdjustedCols ==
    ContDone =>
        \A k \in 1..Len(result) :
            /\ \A col \in AdjustedCols :
                  IsApplied(result[k][col], RawOf(result[k])[col], AdjOf(result[k]))
            /\ adjust_by \notin AdjustedCols =>
                  result[k][adjust_by] = RawOf(result[k])[adjust_by]

\* a list without the adjust_by column, and a row whose listed column is
\* moved by an adjustment while its adjust_by column is not
C15_Witness ==
    /\ ContDone
    /\ adjust_by \notin AdjustedCols
    /\ \E k \in 1..Len(result) :
          /\ ~IsIdentity(AdjOf(result[k]))
          /\ result[k].alt_price # RawOf(result[k]).alt_price
          /\ result[k][adjust_by] = RawOf(result[k])[adjust_by]

\* the columns of the raw data
RawCols == DOMAIN raw_df[1]

\* C16: every output row has the columns of the raw data and the one
\* adjustment column, and holds in every column that is not adjusted,
\* instrument_id and the date among them, the value of one raw row.
C16_Frame ==
    ContDone =>
        \A k \in 1..Len(result) :
            /\ DOMAIN result[k] = RawCols \cup {AdjCol}
            /\ AdjCol \notin RawCols
            /\ \E j \in 1..Len(raw_df) :
                  \A col \in RawCols \ AdjustedCols : result[k][col] = raw_df[j][col]

\* only price is adjusted, and a row whose price is moved by an adjustment
\* while its alt_price is not
C16_Witness ==
    /\ ContDone
    /\ AdjustedCols = {"price"}
    /\ \E k \in 1..Len(result) :
          /\ ~IsIdentity(AdjOf(result[k]))
          /\ result[k].price # RawOf(result[k]).price
          /\ result[k].alt_price = RawOf(result[k]).alt_price

\* the transition out of entry i has a boundary date, and the incoming
\* instrument has no row dated there
MissingBoundary(i) ==
    /\ SegTimes(i) # {}
    /\ ~RawObserved(SegInst(i + 1), LastObs(i))

\* C17: a call of either splicer computes its adjustments, and returns,
\* only if at every transition the incoming instrument has a row dated d,
\* the date of the last row of the outgoing entry; a call that fails
\* returns no series.
C17_BoundaryRequired ==
    /\ pc \in {"cont_adjusted", "cont_done"} =>
          \A i \in 1..(Len(roll_spec) - 1) : ~MissingBoundary(i)
    /\ ContFailed => result = <<>>

\* a failed call over an adjoining schedule every entry of which has rows,
\* where an incoming instrument is observed before d but not at d
C17_Witness ==
    /\ ContFailed
    /\ Adjoining
    /\ \A i \in 1..Len(roll_spec) : SegTimes(i) # {}
    /\ \E i \in 1..(Len(roll_spec) - 1) :
          /\ MissingBoundary(i)
          /\ \E j \in RawIndex(SegInst(i + 1)) : raw_df[j].datetime < LastObs(i)

\* C18: a call of either splicer over a schedule that is not adjoining (an
\* entry with d0 >= d1, entries that overlap or are out of order, or an
\* entry that does not start where its predecessor ends) raises and returns
\* no series.
C18_ValidationAsClaimed ==
    ContDone => Adjoining

----------------------------------------------------------------------------
(* Missing data in constant_maturity_splice *)

\* the instruments entry i of the schedule names
PairIds(i) == {IntOf(roll_spec[i].p), IntOf(roll_spec[i].n)}

\* the symbol parses, so a failure lies with the schedule or the data
SymbolParses == IsIntLiteral(MaturityText(product))

\* C19: a call whose schedule names, as pre or next of an entry, an
\* instrument without rows in the price data does not return a series.
C19_MissingInstrument ==
    /\ CMDone => \A i \in 1..Len(roll_spec) : \A id \in PairIds(i) : DataIndex(id) # {}
    /\ pc = "cm_error" => result = <<>>

\* a call that fails at its second entry, the first to name an instrument
\* without rows, every grid time of the first being observed
C19_Witness ==
    /\ pc = "cm_error"
    /\ SymbolParses
    /\ cm_i = 2
    /\ Len(cm_segments) = 1
    /\ \E id \in PairIds(2) : DataIndex(id) = {}

----------------------------------------------------------------------------
(* The unadjusted splice *)

\* the raw row n belongs to entry i: its instrument, dated in [d0, d1)
InEntry(i, n) ==
    /\ raw_df[n].instrument_id = SegInst(i)
    /\ SegFrom(i) <= raw_df[n].datetime
    /\ raw_df[n].datetime < SegTo(i)

\* the rows of entry i among the first n raw rows, in input order
RECURSIVE EntryRows(_, _)
EntryRows(i, n) ==
    IF n = 0 THEN <<>>
    ELSE IF InEntry(i, n) THEN Append(EntryRows(i, n - 1), raw_df[n])
    ELSE EntryRows(i, n - 1)

\* the rows of the first k entries, entry after entry
RECURSIVE EntriesRows(_)
EntriesRows(k) ==
    IF k = 0 THEN <<>>
    ELSE EntriesRows(k - 1) \o EntryRows(k, Len(raw_df))

RECURSIVE EntriesCount(_)
EntriesCount(k) ==
    IF k = 0 THEN 0
    ELSE EntriesCount(k - 1)
             + Cardinality({ n \in 1..Len(raw_df) : InEntry(k, n) })

\* C25: the unadjusted splice holds, entry after entry of the schedule, the
\* raw rows of the instrument of the entry dated in [d0, d1), in their input
\* order, and nothing else, so that its length is the sum of the counts of
\* those rows; over an ordered schedule the returned series has the same
\* rows in the same order.
C25_UnadjustedSplice ==
    /\ pc \in {"cont_spliced", "cont_adjusted", "cont_done"} =>
          /\ spliced = EntriesRows(Len(roll_spec))
          /\ Len(spliced) = EntriesCount(Len(roll_spec))
    /\ (ContDone /\ Ordered) =>
          /\ Len(result) = EntriesCount(Len(roll_spec))
          /\ \A k \in 1..Len(result) :
                /\ result[k].instrument_id = EntriesRows(Len(roll_spec))[k].instrument_id
                /\ result[k].datetime = EntriesRows(Len(roll_spec))[k].datetime

\* a splice of two entries of different instruments, each of which leaves
\* out a row of its instrument dated d1 and a row of the other instrument
\* dated inside it, the first taking in a row dated d0
C25_Witness ==
    /\ pc = "cont_spliced"
    /\ Len(roll_spec) = 2
    /\ SegInst(1) # SegInst(2)
    /\ Len(spliced) >= 2
    /\ RawObserved(SegInst(1), SegFrom(1))
    /\ \A i \in 1..2 :
          /\ RawObserved(SegInst(i), SegTo(i))
          /\ \E n \in 1..Len(raw_df) :
                /\ raw_df[n].instrument_id # SegInst(i)
                /\ SegFrom(i) <= raw_df[n].datetime
                /\ raw_df[n].datetime < SegTo(i)

----------------------------------------------------------------------------
(* The weight at and beyond the expirations *)

\* C22: for a pair whose pre instrument expires before its next instrument,
\* pre_weight is 1 where t + T is the pre expiration and 0 where it is the
\* next expiration, above 1 where t + T lies before the pre expiration and
\* below 0 where it lies after the next expiration, and the blended price
\* is pre_weight * pre_price + (1 - pre_weight) * next_price for that
\* weight as it is.
C22_Unclamped ==
    CMDone =>
        \A k \in 1..Len(result) :
            LET r == result[k]
                pe == DataExpiration(r.pre_id)
                ne == DataExpiration(r.next_id)
                x == r.datetime + MaturityTicks
                w == r.pre_weight
                pp == DataPrice(r.pre_id, r.datetime)
                np == DataPrice(r.next_id, r.datetime)
            IN pe < ne =>
                  /\ w.den > 0
                  /\ x = pe => w.num = w.den
                  /\ x = ne => w.num = 0
                  /\ x < pe => w.num > w.den
                  /\ x > ne => w.num < 0
                  /\ r.spliced.den > 0
                  /\ r.spliced.num * w.den
                         = r.spliced.den * (w.num * pp + (w.den - w.num) * np)

\* an output with a row whose weight is above 1 and a row whose weight is
\* below 0, the blended price of each lying outside the two prices
C22_Witness ==
    /\ CMDone
    /\ \E k \in 1..Len(result) :
          /\ DataExpiration(result[k].pre_id) < DataExpiration(result[k].next_id)
          /\ result[k].pre_weight.num > result[k].pre_weight.den
          /\ result[k].spliced.num < result[k].spliced.den * result[k].pre_price
    /\ \E k \in 1..Len(result) :
          /\ DataExpiration(result[k].pre_id) < DataExpiration(result[k].next_id)
          /\ result[k].pre_weight.num < 0
          /\ result[k].spliced.num > result[k].spliced.den * result[k].next_price

----------------------------------------------------------------------------
(* The symbol and the empty schedule *)

\* the text of the product after its last dot, the whole of it without one
SuffixText ==
    LET k == CHOOSE j \in 0..Len(product) :
                 /\ (j = 0 \/ product[j] = ".")
                 /\ \A h \in (j + 1)..Len(product) : product[h] # "."
    IN SubSeq(product, k + 1, Len(product))

DecimalDigit ==
    ("0" :> 0) @@ ("1" :> 1) @@ ("2" :> 2) @@ ("3" :> 3) @@ ("4" :> 4) @@
    ("5" :> 5) @@ ("6" :> 6) @@ ("7" :> 7) @@ ("8" :> 8) @@ ("9" :> 9)

\* the text is a run of decimal digits
IsUnsigned(text) ==
    Len(text) > 0 /\ \A i \in 1..Len(text) : text[i] \in DOMAIN DecimalDigit

\* the text is an integer: decimal digits after an optional sign
IsInteger(text) ==
    \/ IsUnsigned(text)
    \/ Len(text) > 1 /\ text[1] \in {"+", "-"} /\ IsUnsigned(Tail(text))

RECURSIVE UnsignedValue(_)
UnsignedValue(text) ==
    IF Len(text) = 0 THEN 0
    ELSE 10 * UnsignedValue(SubSeq(text, 1, Len(text) - 1))
             + DecimalDigit[text[Len(text)]]

IntegerValue(text) ==
    IF text[1] = "-" THEN 0 - UnsignedValue(Tail(text))
    ELSE IF text[1] = "+" THEN UnsignedValue(Tail(text))
    ELSE UnsignedValue(text)

\* C23: a call of get_roll_spec whose symbol parses never raises, and it
\* returns the empty schedule when no day of [start, end) has a live
\* eligible outright expiring before its target and one expiring on or
\* after it: with no eligible outright at all, with none live in the
\* range, or with live ones that form no pair.
C23_EmptyIsNoError ==
    /\ pc = "roll_error" => ~IsInteger(SuffixText)
    /\ (RollDone /\ \A d \in RangeDays : ~Selectable(d)) => result = <<>>

\* an empty schedule for a range that begins before any eligible outright
\* is live and ends with live ones that form no pair
C23_Witness ==
    /\ RollDone
    /\ result = <<>>
    /\ OutrightIds # {}
    /\ \E d \in RangeDays : LiveOn(d) = {}
    /\ \E d \in RangeDays : LiveOn(d) # {}

\* C24: both functions take T from the text after the last dot of the
\* symbol: where that text is not an integer either call stops with an
\* error before it builds anything and returns nothing, and where it is an
\* integer neither call fails over the symbol and both hold its value as T.
C24_MaturityParsing ==
    /\ ~IsInteger(SuffixText) =>
          /\ pc \in {"roll_start", "roll_error", "cm_start", "cm_error"}
          /\ result = <<>>
          /\ segments = <<>>
          /\ cm_segments = <<>>
    /\ IsInteger(SuffixText) =>
          /\ pc # "roll_error"
          /\ pc = "cm_error" => cm_i >= 1
          /\ pc \in {"roll_loop", "roll_done", "cm_loop", "cm_done", "cm_error"} =>
                maturity_days = IntegerValue(SuffixText)

\* a call of constant_maturity_splice stopped over a last component that
\* begins with a digit and is not an integer
C24_Witness ==
    /\ pc = "cm_error"
    /\ cm_i = 0
    /\ Len(SuffixText) = 2
    /\ SuffixText[1] \in DOMAIN DecimalDigit
    /\ ~IsInteger(SuffixText)

----------------------------------------------------------------------------
(* The schedule read back from the spliced series *)

\* the groups of the first k output rows by (pre_id, next_id), in the order
\* in which the pairs first occur: d0 the day of the first row of the group
\* and d1 the day after the day of its last row
RECURSIVE Regrouped(_)
Regrouped(k) ==
    IF k = 0 THEN <<>>
    ELSE LET g == Regrouped(k - 1)
             r == result[k]
             day == r.datetime \div TicksPerDay
             Mine(i) == g[i].p = r.pre_id /\ g[i].n = r.next_id
         IN IF \E i \in 1..Len(g) : Mine(i)
            THEN [i \in 1..Len(g) |->
                     IF Mine(i) THEN [g[i] EXCEPT !.d1 = day + 1] ELSE g[i]]
            ELSE Append(g, [d0 |-> day, d1 |-> day + 1,
                            p |-> r.pre_id, n |-> r.next_id])

\* the schedule as it was passed in, its ids as numbers
InputSchedule ==
    [i \in 1..Len(roll_spec) |->
        [d0 |-> roll_spec[i].d0, d1 |-> roll_spec[i].d1,
         p |-> IntOf(roll_spec[i].p), n |-> IntOf(roll_spec[i].n)]]

\* every entry has a day, and no two entries name the same pair
Regroupable ==
    /\ \A i \in 1..Len(roll_spec) : roll_spec[i].d0 < roll_spec[i].d1
    /\ \A i \in 1..Len(roll_spec) : \A j \in 1..Len(roll_spec) :
          (i # j) => (roll_spec[i].p # roll_spec[j].p \/ roll_spec[i].n # roll_spec[j].n)

\* C21 as claimed: for a schedule whose entries each have d0 < d1, the
\* groups of the output rows by (pre_id, next_id) are the entries of the
\* input schedule, boundaries and pairs.
C21_RoundTripAsClaimed ==
    (CMDone /\ \A i \in 1..Len(roll_spec) : roll_spec[i].d0 < roll_spec[i].d1) =>
        Regrouped(Len(result)) = InputSchedule

\* C21: for an ascending schedule whose entries each have d0 < d1 and name
\* pairwise different pairs, the groups of the output rows by
\* (pre_id, next_id) are the entries of the input schedule, boundaries and
\* pairs.
C21_RoundTrip ==
    (CMDone /\ Regroupable) => Regrouped(Len(result)) = InputSchedule

\* an output of two rows read back as the two entries of its schedule
C21_Witness ==
    /\ CMDone
    /\ Regroupable
    /\ Len(roll_spec) = 2
    /\ Len(result) = 2
    /\ Len(Regrouped(Len(result))) = 2

----------------------------------------------------------------------------
(* The pair of a day as a function of the day, T and the catalog *)

\* the position of an instrument in the catalog
Position(id) ==
    CHOOSE i \in 1..Len(instrument_df) : instrument_df[i].instrument_id = id

\* the live eligible outrights expiring before, and on or after, the target
\* of day d
Before(d) == { x \in LiveOn(d) : ExpDate(x) < d + maturity_days }
OnOrAfter(d) == { x \in LiveOn(d) : ExpDate(x) >= d + maturity_days }

\* the pair of a selectable day d: the latest to expire before the target
\* and the earliest to expire on or after it; of several with the same
\* expiration date the last in the catalog as pre, the first as next
DayPair(d) ==
    LET p == CHOOSE x \in Before(d) : \A y \in Before(d) :
                 \/ ExpDate(y) < ExpDate(x)
                 \/ ExpDate(y) = ExpDate(x) /\ Position(y) <= Position(x)
        n == CHOOSE x \in OnOrAfter(d) : \A y \in OnOrAfter(d) :
                 \/ ExpDate(y) > ExpDate(x)
                 \/ ExpDate(y) = ExpDate(x) /\ Position(y) >= Position(x)
    IN <<p, n>>

\* the day-to-pair map of segment i of the returned schedule
DayPairsOf(i) ==
    { <<d, <<PreOf(result[i]), NextOf(result[i])>>>> : d \in DaysOf(result[i]) }

\* C26: the day-to-pair map of the schedule returned for [start, end) is
\* the map d |-> DayPair(d) on the selectable days of the range, and
\* DayPair(d) and the selectability of d are read from d, T and the catalog
\* alone; the map of a range is therefore the union of the maps of the two
\* parts into which any day mid cuts it.
C26_DayIndependence ==
    RollDone =>
        UNION { DayPairsOf(i) : i \in Schedule }
            = { <<d, DayPair(d)>> : d \in { x \in RangeDays : Selectable(x) } }

\* a schedule of two segments for a range that has a day before an
\* instrument of the schedule is listed and a day without a pair
C26_Witness ==
    /\ RollDone
    /\ Len(result) >= 2
    /\ \E d \in RangeDays : ~Selectable(d)
    /\ \E i \in Schedule : \E x \in {PreOf(result[i]), NextOf(result[i])} :
          start < LiveDate(x) /\ LiveDate(x) < end

----------------------------------------------------------------------------
(* The pairs along the returned schedule *)

\* C29: in every returned segment p and n are different instruments and p
\* expires on an earlier date than n, so that the expiration of n less the
\* expiration of p, the denominator of the interpolation weight, is
\* positive.
C29_DistinctOrderedPair ==
    RollDone =>
        \A i \in Schedule :
            LET p == PreOf(result[i])
                n == NextOf(result[i])
            IN /\ p # n
               /\ ExpDate(p) < ExpDate(n)
               /\ RowOf(n).expiration - RowOf(p).expiration > 0

\* a segment whose instruments expire on consecutive days, p late in its
\* day and n at midnight
C29_Witness ==
    /\ RollDone
    /\ \E i \in Schedule :
          LET p == PreOf(result[i])
              n == NextOf(result[i])
          IN /\ ExpDate(n) = ExpDate(p) + 1
             /\ RowOf(n).expiration - RowOf(p).expiration < TicksPerDay

\* C30: along the returned schedule the expiration date of p never
\* decreases from a segment to a later one, and no pair is the pair of two
\* segments, also where an instrument is listed in the course of the range
\* or days without a pair leave a gap between segments.
C30_ForwardRolls ==
    RollDone =>
        \A i \in Schedule : \A j \in Schedule :
            i < j =>
                /\ ExpDate(PreOf(result[i])) <= ExpDate(PreOf(result[j]))
                /\ <<PreOf(result[i]), NextOf(result[i])>>
                       # <<PreOf(result[j]), NextOf(result[j])>>

\* two segments with a gap between them, the second with an instrument
\* listed in the course of the range and with a later expiring p
C30_Witness ==
    /\ RollDone
    /\ Len(result) = 2
    /\ result[1].d1 < result[2].d0
    /\ \E x \in {PreOf(result[2]), NextOf(result[2])} : start < LiveDate(x)
    /\ ExpDate(PreOf(result[1])) < ExpDate(PreOf(result[2]))

----------------------------------------------------------------------------
(* The variants of get_roll_spec in roll_spec.py and get_roll_spec.py *)

NoneText == <<"N", "o", "n", "e">>     \* str(None)

\* the rows of class "F", spreads ignored
Futures(defs) ==
    LET IsFuture(row) == row.instrument_class = "F" IN SelectSeq(defs, IsFuture)

\* drop_duplicates(subset=[id_col]): the first row of an id is kept
RECURSIVE DropDuplicates(_)
DropDuplicates(rows) ==
    IF Len(rows) = 0 THEN <<>>
    ELSE LET front == DropDuplicates(SubSeq(rows, 1, Len(rows) - 1))
             row == Last(rows)
         IN IF \E j \in 1..Len(front) :
                    front[j].instrument_id = row.instrument_id
            THEN front
            ELSE Append(front, row)

\* roll_spec.py: the unique instruments in order of expiration date
RollSpecInst(defs) == SortByExp(DropDuplicates(WithDates(Futures(defs))))

\* roll_spec.py pick_pair: None is <<>>
RollSpecPickPair(inst, d, md) ==
    LET target == d + md
        Live(row) == row.live_date <= d
        pool == SelectSeq(inst, Live)
        IsBefore(row) == row.exp_date < target
        IsAfter(row) == row.exp_date >= target
        before == SelectSeq(pool, IsBefore)
        after == SelectSeq(pool, IsAfter)
    IN IF Len(pool) = 0 \/ Len(before) = 0 \/ Len(after) = 0 THEN <<>>
       ELSE IF Last(before).instrument_id = after[1].instrument_id THEN <<>>
       ELSE <<Last(before).instrument_id, after[1].instrument_id>>

\* a window of the output, all strings
Window(d0, d1, pair) ==
    [d0 |-> d0, d1 |-> d1, p |-> StrOf(pair[1]), n |-> StrOf(pair[2])]

\* roll_spec.py: the loop over the days of [start, end)
RECURSIVE RollSpecLoop(_, _, _, _, _)
RollSpecLoop(inst, d, last, md, st) ==
    IF d >= last THEN st
    ELSE LET pair == RollSpecPickPair(inst, d, md)
             after ==
                 IF pair # st.cur_pair
                 THEN [specs |->
                          IF st.cur_pair # <<>> /\ st.window_start # NoDate
                          THEN Append(st.specs,
                                      Window(st.window_start, d, st.cur_pair))
                          ELSE st.specs,
                       cur_pair |-> pair,
                       window_start |-> d]
                 ELSE st
         IN RollSpecLoop(inst, d + 1, last, md, after)

\* roll_spec.py: int() of the last component raises
RollSpecRaises(symbol) == ~IsIntLiteral(Last(SplitDot(symbol)))

\* roll_spec.py get_roll_spec, for a symbol that parses
RollSpecVariant(symbol, defs, s, e) ==
    LET md == IntOf(Last(SplitDot(symbol)))
        st == RollSpecLoop(RollSpecInst(defs), s, e, md,
                           [specs |-> <<>>, cur_pair |-> <<>>,
                            window_start |-> NoDate])
        closed ==
            IF st.cur_pair # <<>> /\ st.window_start # NoDate
                   /\ st.window_start < e
            THEN Append(st.specs, Window(st.window_start, e, st.cur_pair))
            ELSE st.specs
        Named(w) == w.p # NoneText /\ w.n # NoneText
    IN SelectSeq(closed, Named)

\* symbol.rsplit(".", 1)[-1]: the text after the last dot
RsplitLast(symbol) ==
    LET dots == {i \in 1..Len(symbol) : symbol[i] = "."}
    IN IF dots = {} THEN symbol
       ELSE LET k == CHOOSE i \in dots : \A j \in dots : j <= i
            IN SubSeq(symbol, k + 1, Len(symbol))

\* sort_values(["expiration", "instrument_id"])
RECURSIVE InsertByExpId(_, _)
InsertByExpId(sorted, row) ==
    IF Len(sorted) = 0 THEN <<row>>
    ELSE LET top == Last(sorted)
         IN IF top.expiration < row.expiration
                   \/ (top.expiration = row.expiration
                          /\ top.instrument_id <= row.instrument_id)
            THEN Append(sorted, row)
            ELSE Append(InsertByExpId(SubSeq(sorted, 1, Len(sorted) - 1), row),
                        top)

RECURSIVE SortByExpId(_)
SortByExpId(rows) ==
    IF Len(rows) = 0 THEN <<>>
    ELSE InsertByExpId(SortByExpId(SubSeq(rows, 1, Len(rows) - 1)), Last(rows))

\* get_roll_spec.py: the tuples (instrument_id, expiration, recv_date)
GetRollSpecExps(defs) ==
    LET rows == SortByExpId(Futures(defs))
    IN [i \in 1..Len(rows) |->
           [iid |-> rows[i].instrument_id,
            exp |-> rows[i].expiration,
            rcv |-> DateOf(rows[i].ts_recv)]]

\* max(pre, key=...) and min(nxt, key=...): the first of the extreme items
FirstMax(items) ==
    items[CHOOSE i \in 1..Len(items) :
              /\ \A j \in 1..Len(items) : items[j].exp <= items[i].exp
              /\ \A j \in 1..(i - 1) : items[j].exp < items[i].exp]

FirstMin(items) ==
    items[CHOOSE i \in 1..Len(items) :
              /\ \A j \in 1..Len(items) : items[j].exp >= items[i].exp
              /\ \A j \in 1..(i - 1) : items[j].exp > items[i].exp]

\* get_roll_spec.py pick_pair: x is midnight of d plus the maturity
GetRollSpecPickPair(exps, d, cm) ==
    LET x == Days(d) + Days(cm)
        Live(t) == t.rcv <= d
        live == SelectSeq(exps, Live)
        UpTo(t) == t.exp <= x
        Beyond(t) == t.exp > x
        pre == SelectSeq(live, UpTo)
        nxt == SelectSeq(live, Beyond)
    IN IF Len(pre) = 0 \/ Len(nxt) = 0 THEN <<>>
       ELSE <<FirstMax(pre).iid, FirstMin(nxt).iid>>

\* get_roll_spec.py: the while loop over the days of [start, end]
RECURSIVE GetRollSpecLoop(_, _, _, _, _)
GetRollSpecLoop(exps, d, last, cm, st) ==
    IF d > last THEN st
    ELSE LET picked == GetRollSpecPickPair(exps, d, cm)
             pair == IF picked = <<>> /\ st.cur_pair # <<>>
                     THEN st.cur_pair ELSE picked
         IN IF pair = <<>> /\ st.cur_pair = <<>>
            THEN GetRollSpecLoop(exps, d + 1, last, cm, st)
            ELSE IF pair # st.cur_pair
            THEN LET specs == IF st.cur_pair # <<>> /\ st.run_start # NoDate
                              THEN Append(st.specs,
                                          Window(st.run_start, d, st.cur_pair))
                              ELSE st.specs
                 IN IF d = last
                    THEN [specs |-> specs, cur_pair |-> <<>>,
                          run_start |-> NoDate]
                    ELSE GetRollSpecLoop(exps, d + 1, last, cm,
                                         [specs |-> specs, cur_pair |-> pair,
                                          run_start |-> d])
            ELSE GetRollSpecLoop(exps, d + 1, last, cm, st)

\* get_roll_spec.py: int() of the last component raises
GetRollSpecRaises(symbol) == ~IsIntLiteral(RsplitLast(symbol))

\* get_roll_spec.py get_roll_spec, for a symbol that parses
GetRollSpecVariant(symbol, defs, s, e) ==
    LET cm == IntOf(RsplitLast(symbol))
        st == GetRollSpecLoop(GetRollSpecExps(defs), s, e, cm,
                              [specs |-> <<>>, cur_pair |-> <<>>,
                               run_start |-> NoDate])
        closed == IF st.cur_pair # <<>>
                  THEN Append(st.specs, Window(st.run_start, e, st.cur_pair))
                  ELSE st.specs
        Truthy(w) == Len(w.p) > 0 /\ Len(w.n) > 0
    IN SelectSeq(closed, Truthy)

\* every outright of the catalog carries the root of the product
AllOutrightsCarryRoot ==
    \A i \in 1..Len(instrument_df) :
        instrument_df[i].instrument_class = "F"
            => StartsWith(instrument_df[i].raw_symbol, Root(product))

\* the package-level function and the variant of roll_spec.py return the
\* same segments, and fail on the same symbols
C27_PackageAndRollSpecAgree ==
    AllOutrightsCarryRoot =>
        /\ pc = "roll_error" => RollSpecRaises(product)
        /\ RollDone =>
              /\ ~RollSpecRaises(product)
              /\ result = RollSpecVariant(product, instrument_df, start, end)

\* C27: for a catalog in which every outright carries the root of the
\* product, the get_roll_spec of the package, of roll_spec.py and of
\* get_roll_spec.py fail on the same symbols and return the identical
\* list of segments.
C27_EquivalenceAsClaimed ==
    AllOutrightsCarryRoot =>
        /\ pc = "roll_error" =>
              RollSpecRaises(product) /\ GetRollSpecRaises(product)
        /\ RollDone =>
              /\ ~RollSpecRaises(product)
              /\ ~GetRollSpecRaises(product)
              /\ result = RollSpecVariant(product, instrument_df, start, end)
              /\ result = GetRollSpecVariant(product, instrument_df, start, end)

----------------------------------------------------------------------------
(* get_roll_spec followed by constant_maturity_splice on its schedule, as  *)
(* in test_real_data (src/tests/test_constant_maturity.py): daily          *)
(* observations at midnight of the instruments the schedule names, merged  *)
(* with the expirations of the catalog.                                    *)

PipeProducts ==
    { RootA \o <<".", "c", ".", "1">>,
      RootA \o <<".", "c", ".", "2">>,
      RootA \o <<".", "c", ".", "x">> }

\* expirations at any time of any day
PipeExpStamps == 0..(Days(MaxExpDay + 1) - 1)

\* outrights of the root; the last may be listed in the course of the range
PipeCatalogs ==
    { cat \in [InstrumentIds -> [kind : {EligibleKind},
                                  expiration : PipeExpStamps,
                                  ts_recv : LiveStamps]] :
        \A i \in InstrumentIds :
            i < Cardinality(InstrumentIds) => cat[i].ts_recv = 0 }

\* cm_instruments: the ids the schedule names
PipeInstruments(spec) ==
    { IntOf(spec[i].p) : i \in 1..Len(spec) }
        \cup { IntOf(spec[i].n) : i \in 1..Len(spec) }

\* the daily observations over [s, e) of the named instruments, each with
\* the expiration the catalog gives its instrument
PipeData(spec, defs, s, e) ==
    LET span == IF e > s THEN e - s ELSE 0
        cells == [k \in 1..(Len(defs) * span) |->
                     <<defs[((k - 1) \div span) + 1], s + ((k - 1) % span)>>]
        Named(c) == c[1].instrument_id \in PipeInstruments(spec)
        named == SelectSeq(cells, Named)
    IN [k \in 1..Len(named) |->
           [instrument_id |-> named[k][1].instrument_id,
            datetime |-> Days(named[k][2]),
            price |-> FixturePrice(named[k][1].instrument_id, named[k][2]),
            expiration |-> named[k][1].expiration]]

InitPipe ==
    /\ pc = "roll_start"
    /\ product \in PipeProducts
    /\ \E cat \in PipeCatalogs : instrument_df = CatalogRows(cat)
    /\ start \in StartDates
    /\ end \in 0..MaxDay
    /\ df = <<>>
    /\ maturity_days = 0
    /\ current = 0
    /\ segments = <<>>
    /\ cur_pair = <<>>
    /\ seg_start = NoDate
    /\ result = <<>>
    /\ roll_spec = <<>>
    /\ all_data = <<>>
    /\ cm_i = 0
    /\ cm_segments = <<>>
    /\ mode = "none"
    /\ raw_df = <<>>
    /\ adjust_by = "price"
    /\ adjustment_cols = NoCols
    /\ spliced = <<>>
    /\ adjustments = <<>>

\* the schedule returned for the symbol is passed on with the data of its
\* instruments
PipeCall ==
    /\ pc = "roll_done"
    /\ pc' = "cm_start"
    /\ roll_spec' = result
    /\ all_data' = PipeData(result, instrument_df, start, end)
    /\ UNCHANGED <<product, maturity_days, result, cm_i, cm_segments>>
    /\ UNCHANGED rollVars
    /\ UNCHANGED contVars

\* the symbol has parsed in get_roll_spec, so that the splice parses it too
NextPipe ==
    \/ RollParseError
    \/ RollPrepare
    \/ RollDay
    \/ RollReturn
    \/ PipeCall
    \/ CMBegin
    \/ CMSegment
    \/ CMConcat

SpecPipe == InitPipe /\ [][NextPipe]_vars

\* a weight inside [0, 1)
InUnitInterval(w) == w.den > 0 /\ 0 <= w.num /\ w.num < w.den

\* C28: when constant_maturity_splice is given the schedule get_roll_spec
\* returned for the same symbol, with daily observations at midnight and
\* expirations at any time of their day, every pre_weight of the frames it
\* builds and of the frame it returns satisfies 0 <= pre_weight < 1.
C28_CompositionBound ==
    /\ pc = "cm_loop" =>
          \A i \in 1..Len(cm_segments) : \A k \in 1..Len(cm_segments[i]) :
              InUnitInterval(cm_segments[i][k].pre_weight)
    /\ pc = "cm_done" =>
          \A k \in 1..Len(result) : InUnitInterval(result[k].pre_weight)

\* a frame returned for a schedule of two segments, with a weight of zero,
\* a weight above zero, and a previous expiration away from midnight
C28_Witness ==
    /\ pc = "cm_done"
    /\ Len(roll_spec) = 2
    /\ \E k \in 1..Len(result) : result[k].pre_weight.num = 0
    /\ \E k \in 1..Len(result) :
          /\ result[k].pre_weight.num > 0
          /\ result[k].pre_expiration % TicksPerDay # 0

====
